---- MODULE Spec2Model ----
(***************************************************************************)
(* Blocking synchronisation primitives of library/std/src/sys/theseus/locks *)
(* (Mutex, Condvar, RwLock) over the Theseus task scheduler.                *)
(*                                                                          *)
(* Every task is a sequential program; one action is one statement of the   *)
(* source.  pc[t] is the statement task t executes next, ret[t] the stack   *)
(* of return addresses of the calls it is inside.  A spin::Mutex is the id  *)
(* of the task holding it (NoTask when free): acquiring it is enabled only  *)
(* while it is free, which is what spinning amounts to.  The scheduler is   *)
(* the runstate flag (blocked), whether the task is on a core (oncpu) and   *)
(* whether it holds preemption (preempt).  Every task may have a core of    *)
(* its own; a task leaves its core in yield_now or when preempted and gets  *)
(* one back only while it is not blocked.                                   *)
(***************************************************************************)
EXTENDS Naturals, Sequences, FiniteSets

\* Number of tasks of the free-running specifications.
NTasks == 3

NoTask == 0

Tasks == 1 .. NTasks

\* All task ids any specification uses (the reader/writer scenario has four).
AllTasks == 1 .. (NTasks + 1)

\* The condition variables: one used with the Mutex, two inside the RwLock.
Condvars == {"cv", "readers", "writers"}

VARIABLES
    pc,         \* [task -> statement about to be executed]
    ret,        \* [task -> stack of return addresses]
    script,     \* [task -> calls still to make] (scenario specifications)
    cvar,       \* [task -> the Condvar (self) of its current Condvar call; "cv" outside one]
    task,       \* [task -> local `task` of unlock / notify_one]
    rv,         \* [task -> value returned by its last bool-returning call]
    blocked,    \* [task -> runstate is Blocked]
    oncpu,      \* [task -> currently running on a core]
    preempt,    \* [task -> holds a preemption guard]
    m_spin,     \* holder of Mutex.state (spin::Mutex<State>)
    is_locked,  \* Mutex State.is_locked
    queue,      \* Mutex State.queue
    cv_spin,    \* [condvar -> holder of Condvar.queue (spin::Mutex<Vec>)]
    cv_queue,   \* [condvar -> Condvar.queue]
    atomic_unlock_and_block, \* [condvar -> holder of that spin::Mutex<()>]
    rw_spin,    \* holder of RwLock.state (spin::Mutex<State>)
    rw_state,   \* RwLock State: Unlocked, Reading(n), Writing
    owner,      \* history: tasks between a successful lock and their unlock
    rholders,   \* history: tasks between read()/try_read() and read_unlock()
    wholders,   \* history: tasks between write()/try_write() and write_unlock()
    owed,       \* history: writers parked when the RwLock last became Unlocked
    late        \* history: readers parked behind such a writer at that moment

ctl == <<pc, ret>>
locals == <<cvar, task, rv>>
sched == <<blocked, oncpu, preempt>>
mutexv == <<m_spin, is_locked, queue>>
condv == <<cv_spin, cv_queue, atomic_unlock_and_block>>
rwv == <<rw_spin, rw_state>>
hist == <<owner, rholders, wholders, owed, late>>

vars == <<pc, ret, script, cvar, task, rv, blocked, oncpu, preempt, m_spin,
          is_locked, queue, cv_spin, cv_queue, atomic_unlock_and_block,
          rw_spin, rw_state, owner, rholders, wholders, owed, late>>

----------------------------------------------------------------------------
\* Control flow helpers.

\* Task t is on a core and about to execute statement l.
At(t, l) == pc[t] = l /\ oncpu[t]

Goto(t, l) == pc' = [pc EXCEPT ![t] = l] /\ ret' = ret

Call(t, entry, back) ==
    /\ pc' = [pc EXCEPT ![t] = entry]
    /\ ret' = [ret EXCEPT ![t] = <<back>> \o ret[t]]

Return(t) ==
    /\ pc' = [pc EXCEPT ![t] = Head(ret[t])]
    /\ ret' = [ret EXCEPT ![t] = Tail(ret[t])]

\* The frames task t is inside, innermost first.
Frames(t) == <<pc[t]>> \o ret[t]

Inside(t, labels) == \E i \in 1 .. Len(Frames(t)) : Frames(t)[i] \in labels

InSeq(x, s) == \E i \in 1 .. Len(s) : s[i] = x

\* Statements of user code, between calls into the primitives.
UserLabels == {"idle", "cs", "after_try_lock", "after_notify",
               "after_notify_unlocked", "reading", "writing",
               "after_try_read", "after_try_write", "user", "off", "dead"}

----------------------------------------------------------------------------
\* Scheduler (libtheseus::task).

\* TaskRef::block(): marks the task not runnable; does not yield.
block(t) == blocked' = [blocked EXCEPT ![t] = TRUE]

\* TaskRef::unblock(): marks the task runnable.
unblock(t) == blocked' = [blocked EXCEPT ![t] = FALSE]

\* A task that left its core is dispatched again only while runnable.
Resume(t) ==
    /\ ~oncpu[t]
    /\ ~blocked[t]
    /\ oncpu' = [oncpu EXCEPT ![t] = TRUE]
    /\ UNCHANGED <<ctl, script, locals, blocked, preempt, mutexv, condv, rwv, hist>>

\* Preemption: a task inside a primitive that holds no preemption guard is
\* taken off its core.  (Preempting user code only delays its next call.)
Preempt(t) ==
    /\ oncpu[t]
    /\ ~preempt[t]
    /\ pc[t] \notin UserLabels
    /\ oncpu' = [oncpu EXCEPT ![t] = FALSE]
    /\ UNCHANGED <<ctl, script, locals, blocked, preempt, mutexv, condv, rwv, hist>>

----------------------------------------------------------------------------
\* Mutex::lock  (mutex.rs 36-62)

lock_hold_preemption(t) ==
    /\ At(t, "lock_hold")
    /\ preempt' = [preempt EXCEPT ![t] = TRUE]
    /\ Goto(t, "lock_spin")
    /\ UNCHANGED <<script, locals, blocked, oncpu, mutexv, condv, rwv, hist>>

lock_state_lock(t) ==
    /\ At(t, "lock_spin")
    /\ m_spin = NoTask
    /\ m_spin' = t
    /\ Goto(t, "lock_test")
    /\ UNCHANGED <<script, locals, sched, is_locked, queue, condv, rwv, hist>>

\* if !state.is_locked { state.is_locked = true; return; }
\* Faulty variant of lock_test: queues the caller of an unlocked Mutex and
\* leaves is_locked false.
lock_test_queues_unlocked(t) ==
    /\ At(t, "lock_test")
    /\ is_locked' = is_locked
    /\ Goto(t, "lock_push")
    /\ UNCHANGED <<script, locals, sched, m_spin, queue, condv, rwv, hist>>

\* Faulty variant of lock_test: queues the caller although the Mutex was
\* unlocked.
lock_test_queues_first(t) ==
    /\ At(t, "lock_test")
    /\ IF ~is_locked
          THEN is_locked' = TRUE /\ Goto(t, "lock_push")
          ELSE is_locked' = is_locked /\ Goto(t, "lock_push")
    /\ UNCHANGED <<script, locals, sched, m_spin, queue, condv, rwv, hist>>

lock_test(t) ==
    /\ At(t, "lock_test")
    /\ IF ~is_locked
          THEN is_locked' = TRUE /\ Goto(t, "lock_fast_drop_state")
          ELSE is_locked' = is_locked /\ Goto(t, "lock_push")
    /\ UNCHANGED <<script, locals, sched, m_spin, queue, condv, rwv, hist>>

\* the early return drops `state`, then `guard`
lock_fast_drop_state(t) ==
    /\ At(t, "lock_fast_drop_state")
    /\ m_spin' = NoTask
    /\ Goto(t, "lock_fast_drop_guard")
    /\ UNCHANGED <<script, locals, sched, is_locked, queue, condv, rwv, hist>>

lock_fast_drop_guard(t) ==
    /\ At(t, "lock_fast_drop_guard")
    /\ preempt' = [preempt EXCEPT ![t] = FALSE]
    /\ owner' = owner \cup {t}
    /\ Return(t)
    /\ UNCHANGED <<script, locals, blocked, oncpu, mutexv, condv, rwv,
                   rholders, wholders, owed, late>>

\* state.queue.push(current_task)
lock_push(t) ==
    /\ At(t, "lock_push")
    /\ queue' = Append(queue, t)
    /\ Goto(t, "lock_block")
    /\ UNCHANGED <<script, locals, sched, m_spin, is_locked, condv, rwv, hist>>

\* current_task.block()
\* Faulty variant of lock_block: the caller does not mark itself blocked.
lock_block_skipped(t) ==
    /\ At(t, "lock_block")
    /\ Goto(t, "lock_drop_state")
    /\ UNCHANGED <<script, locals, sched, mutexv, condv, rwv, hist>>

lock_block(t) ==
    /\ At(t, "lock_block")
    /\ block(t)
    /\ Goto(t, "lock_drop_state")
    /\ UNCHANGED <<script, locals, oncpu, preempt, mutexv, condv, rwv, hist>>

lock_drop_state(t) ==
    /\ At(t, "lock_drop_state")
    /\ m_spin' = NoTask
    /\ Goto(t, "lock_drop_guard")
    /\ UNCHANGED <<script, locals, sched, is_locked, queue, condv, rwv, hist>>

\* Faulty variant of lock_drop_guard: the caller marks itself blocked only
\* here, after it has released the state spinlock.
lock_drop_guard_blocks_again(t) ==
    /\ At(t, "lock_drop_guard")
    /\ preempt' = [preempt EXCEPT ![t] = FALSE]
    /\ block(t)
    /\ Goto(t, "lock_yield")
    /\ UNCHANGED <<script, locals, oncpu, mutexv, condv, rwv, hist>>

lock_drop_guard(t) ==
    /\ At(t, "lock_drop_guard")
    /\ preempt' = [preempt EXCEPT ![t] = FALSE]
    /\ Goto(t, "lock_yield")
    /\ UNCHANGED <<script, locals, blocked, oncpu, mutexv, condv, rwv, hist>>

\* task::yield_now(): the task gives up its core
lock_yield(t) ==
    /\ At(t, "lock_yield")
    /\ oncpu' = [oncpu EXCEPT ![t] = FALSE]
    /\ Goto(t, "lock_resumed")
    /\ UNCHANGED <<script, locals, blocked, preempt, mutexv, condv, rwv, hist>>

\* back from yield_now: lock() returns
lock_resumed(t) ==
    /\ At(t, "lock_resumed")
    /\ owner' = owner \cup {t}
    /\ Return(t)
    /\ UNCHANGED <<script, locals, sched, mutexv, condv, rwv,
                   rholders, wholders, owed, late>>

----------------------------------------------------------------------------
\* Mutex::unlock  (mutex.rs 65-80)

\* Faulty variant of unlock_hold_preemption: goes for the state spinlock
\* without suppressing preemption.
unlock_hold_preemption_skipped(t) ==
    /\ At(t, "unlock_hold")
    /\ Goto(t, "unlock_spin")
    /\ UNCHANGED <<script, locals, sched, mutexv, condv, rwv, hist>>

unlock_hold_preemption(t) ==
    /\ At(t, "unlock_hold")
    /\ preempt' = [preempt EXCEPT ![t] = TRUE]
    /\ Goto(t, "unlock_spin")
    /\ UNCHANGED <<script, locals, blocked, oncpu, mutexv, condv, rwv, hist>>

unlock_state_lock(t) ==
    /\ At(t, "unlock_spin")
    /\ m_spin = NoTask
    /\ m_spin' = t
    /\ Goto(t, "unlock_test")
    /\ UNCHANGED <<script, locals, sched, is_locked, queue, condv, rwv, hist>>

\* Faulty variant of unlock_test: hands the lock to the newest waiter.
unlock_test_lifo(t) ==
    /\ At(t, "unlock_test")
    /\ IF queue = <<>>
          THEN /\ is_locked' = FALSE
               /\ UNCHANGED <<queue, task>>
               /\ Goto(t, "unlock_drop_state")
          ELSE /\ task' = [task EXCEPT ![t] = queue[Len(queue)]]
               /\ queue' = SubSeq(queue, 1, Len(queue) - 1)
               /\ UNCHANGED is_locked
               /\ Goto(t, "unlock_unblock")
    /\ UNCHANGED <<script, cvar, rv, sched, m_spin, condv, rwv, hist>>

\* Faulty variant of unlock_test: clears is_locked also when it hands the lock over.
unlock_test_clears(t) ==
    /\ At(t, "unlock_test")
    /\ is_locked' = FALSE
    /\ IF queue = <<>>
          THEN /\ UNCHANGED <<queue, task>>
               /\ Goto(t, "unlock_drop_state")
          ELSE /\ task' = [task EXCEPT ![t] = Head(queue)]
               /\ queue' = Tail(queue)
               /\ Goto(t, "unlock_unblock")
    /\ UNCHANGED <<script, cvar, rv, sched, m_spin, condv, rwv, hist>>

\* if state.queue.is_empty() { state.is_locked = false }
\* else { let task = state.queue.remove(0); ... }
unlock_test(t) ==
    /\ At(t, "unlock_test")
    /\ IF queue = <<>>
          THEN /\ is_locked' = FALSE
               /\ UNCHANGED <<queue, task>>
               /\ Goto(t, "unlock_drop_state")
          ELSE /\ task' = [task EXCEPT ![t] = Head(queue)]
               /\ queue' = Tail(queue)
               /\ UNCHANGED is_locked
               /\ Goto(t, "unlock_unblock")
    /\ UNCHANGED <<script, cvar, rv, sched, m_spin, condv, rwv, hist>>

\* task.unblock()
\* Faulty variant of unlock_unblock: drops the removed waiter without
\* unblocking it.
unlock_unblock_skipped(t) ==
    /\ At(t, "unlock_unblock")
    /\ task' = [task EXCEPT ![t] = NoTask]
    /\ Goto(t, "unlock_drop_state")
    /\ UNCHANGED <<script, cvar, rv, sched, mutexv, condv, rwv, hist>>

unlock_unblock(t) ==
    /\ At(t, "unlock_unblock")
    /\ unblock(task[t])
    /\ task' = [task EXCEPT ![t] = NoTask]
    /\ Goto(t, "unlock_drop_state")
    /\ UNCHANGED <<script, cvar, rv, oncpu, preempt, mutexv, condv, rwv, hist>>

unlock_drop_state(t) ==
    /\ At(t, "unlock_drop_state")
    /\ m_spin' = NoTask
    /\ Goto(t, "unlock_drop_guard")
    /\ UNCHANGED <<script, locals, sched, is_locked, queue, condv, rwv, hist>>

unlock_drop_guard(t) ==
    /\ At(t, "unlock_drop_guard")
    /\ preempt' = [preempt EXCEPT ![t] = FALSE]
    /\ Return(t)
    /\ UNCHANGED <<script, locals, blocked, oncpu, mutexv, condv, rwv, hist>>

----------------------------------------------------------------------------
\* Mutex::try_lock  (mutex.rs 83-97)

try_lock_hold_preemption(t) ==
    /\ At(t, "try_lock_hold")
    /\ preempt' = [preempt EXCEPT ![t] = TRUE]
    /\ Goto(t, "try_lock_spin")
    /\ UNCHANGED <<script, locals, blocked, oncpu, mutexv, condv, rwv, hist>>

try_lock_state_lock(t) ==
    /\ At(t, "try_lock_spin")
    /\ m_spin = NoTask
    /\ m_spin' = t
    /\ Goto(t, "try_lock_test")
    /\ UNCHANGED <<script, locals, sched, is_locked, queue, condv, rwv, hist>>

\* Faulty variant of try_lock_test: reports success whatever is_locked was.
try_lock_test_always_true(t) ==
    /\ At(t, "try_lock_test")
    /\ rv' = [rv EXCEPT ![t] = TRUE]
    /\ is_locked' = TRUE
    /\ Goto(t, "try_lock_drop_state")
    /\ UNCHANGED <<script, cvar, task, sched, m_spin, queue, condv, rwv, hist>>

\* Faulty variant of try_lock_test: queues the caller when the Mutex is taken.
try_lock_test_enqueues(t) ==
    /\ At(t, "try_lock_test")
    /\ IF is_locked
          THEN /\ rv' = [rv EXCEPT ![t] = FALSE]
               /\ is_locked' = is_locked
               /\ queue' = Append(queue, t)
          ELSE /\ rv' = [rv EXCEPT ![t] = TRUE]
               /\ is_locked' = TRUE
               /\ queue' = queue
    /\ Goto(t, "try_lock_drop_state")
    /\ UNCHANGED <<script, cvar, task, sched, m_spin, condv, rwv, hist>>

\* if state.is_locked { ...; false } else { state.is_locked = true; ...; true }
try_lock_test(t) ==
    /\ At(t, "try_lock_test")
    /\ IF is_locked
          THEN rv' = [rv EXCEPT ![t] = FALSE] /\ is_locked' = is_locked
          ELSE rv' = [rv EXCEPT ![t] = TRUE] /\ is_locked' = TRUE
    /\ Goto(t, "try_lock_drop_state")
    /\ UNCHANGED <<script, cvar, task, sched, m_spin, queue, condv, rwv, hist>>

try_lock_drop_state(t) ==
    /\ At(t, "try_lock_drop_state")
    /\ m_spin' = NoTask
    /\ Goto(t, "try_lock_drop_guard")
    /\ UNCHANGED <<script, locals, sched, is_locked, queue, condv, rwv, hist>>

try_lock_drop_guard(t) ==
    /\ At(t, "try_lock_drop_guard")
    /\ preempt' = [preempt EXCEPT ![t] = FALSE]
    /\ owner' = IF rv[t] THEN owner \cup {t} ELSE owner
    /\ Return(t)
    /\ UNCHANGED <<script, locals, blocked, oncpu, mutexv, condv, rwv,
                   rholders, wholders, owed, late>>

----------------------------------------------------------------------------
\* User code of the Mutex specification: any task may lock or try_lock at
\* any time; only the holder unlocks.

UserLock(t) ==
    /\ At(t, "idle")
    /\ Call(t, "lock_hold", "cs")
    /\ UNCHANGED <<script, locals, sched, mutexv, condv, rwv, hist>>

UserTryLock(t) ==
    /\ At(t, "idle")
    /\ Call(t, "try_lock_hold", "after_try_lock")
    /\ UNCHANGED <<script, locals, sched, mutexv, condv, rwv, hist>>

UserAfterTryLock(t) ==
    /\ At(t, "after_try_lock")
    /\ Goto(t, IF rv[t] THEN "cs" ELSE "idle")
    /\ rv' = [rv EXCEPT ![t] = FALSE]
    /\ UNCHANGED <<script, cvar, task, sched, mutexv, condv, rwv, hist>>

UserUnlock(t) ==
    /\ At(t, "cs")
    /\ owner' = owner \ {t}
    /\ Call(t, "unlock_hold", "idle")
    /\ UNCHANGED <<script, locals, sched, mutexv, condv, rwv,
                   rholders, wholders, owed, late>>

LockStep(t) ==
    \/ lock_hold_preemption(t) \/ lock_state_lock(t) \/ lock_test(t)
    \/ lock_fast_drop_state(t) \/ lock_fast_drop_guard(t)
    \/ lock_push(t) \/ lock_block(t) \/ lock_drop_state(t)
    \/ lock_drop_guard(t) \/ lock_yield(t) \/ lock_resumed(t)

UnlockStep(t) ==
    \/ unlock_hold_preemption(t) \/ unlock_state_lock(t) \/ unlock_test(t)
    \/ unlock_unblock(t) \/ unlock_drop_state(t) \/ unlock_drop_guard(t)

TryLockStep(t) ==
    \/ try_lock_hold_preemption(t) \/ try_lock_state_lock(t)
    \/ try_lock_test(t) \/ try_lock_drop_state(t) \/ try_lock_drop_guard(t)

MutexStep(t) == LockStep(t) \/ UnlockStep(t) \/ TryLockStep(t)

MutexUser(t) ==
    \/ UserLock(t) \/ UserTryLock(t) \/ UserAfterTryLock(t) \/ UserUnlock(t)

----------------------------------------------------------------------------
\* Condvar::notify_one  (condvar.rs 37-49), on the Condvar cvar[t]

notify_one_queue_lock(t) ==
    /\ At(t, "notify_one_queue_lock")
    /\ cv_spin[cvar[t]] = NoTask
    /\ cv_spin' = [cv_spin EXCEPT ![cvar[t]] = t]
    /\ Goto(t, "notify_one_guard_lock")
    /\ UNCHANGED <<script, locals, sched, mutexv, cv_queue,
                   atomic_unlock_and_block, rwv, hist>>

\* Faulty variant of notify_one_guard_lock: does not wait for the guard.
notify_one_no_guard(t) ==
    /\ At(t, "notify_one_guard_lock")
    /\ Goto(t, "notify_one_test")
    /\ UNCHANGED <<script, locals, sched, mutexv, condv, rwv, hist>>

\* let _lock = self.atomic_unlock_and_block.lock();
notify_one_guard_lock(t) ==
    /\ At(t, "notify_one_guard_lock")
    /\ atomic_unlock_and_block[cvar[t]] = NoTask
    /\ atomic_unlock_and_block' = [atomic_unlock_and_block EXCEPT ![cvar[t]] = t]
    /\ Goto(t, "notify_one_test")
    /\ UNCHANGED <<script, locals, sched, mutexv, cv_spin, cv_queue, rwv, hist>>

\* Faulty variant of notify_one_test: takes the queue for empty.
notify_one_test_no_wake(t) ==
    /\ At(t, "notify_one_test")
    /\ rv' = [rv EXCEPT ![t] = FALSE]
    /\ Goto(t, "notify_one_drop_guard")
    /\ UNCHANGED <<script, cvar, task, sched, mutexv, condv, rwv, hist>>

\* Faulty variant of notify_one_test: removes the newest waiter.
notify_one_test_lifo(t) ==
    /\ At(t, "notify_one_test")
    /\ IF cv_queue[cvar[t]] # <<>>
          THEN /\ task' = [task EXCEPT ![t] = cv_queue[cvar[t]][Len(cv_queue[cvar[t]])]]
               /\ cv_queue' = [cv_queue EXCEPT ![cvar[t]] = SubSeq(@, 1, Len(@) - 1)]
               /\ rv' = rv
               /\ Goto(t, "notify_one_unblock")
          ELSE /\ rv' = [rv EXCEPT ![t] = FALSE]
               /\ UNCHANGED <<task, cv_queue>>
               /\ Goto(t, "notify_one_drop_guard")
    /\ UNCHANGED <<script, cvar, sched, mutexv, cv_spin,
                   atomic_unlock_and_block, rwv, hist>>

\* if !queue.is_empty() { let task = queue.remove(0); ... } else { false }
notify_one_test(t) ==
    /\ At(t, "notify_one_test")
    /\ IF cv_queue[cvar[t]] # <<>>
          THEN /\ task' = [task EXCEPT ![t] = Head(cv_queue[cvar[t]])]
               /\ cv_queue' = [cv_queue EXCEPT ![cvar[t]] = Tail(@)]
               /\ rv' = rv
               /\ Goto(t, "notify_one_unblock")
          ELSE /\ rv' = [rv EXCEPT ![t] = FALSE]
               /\ UNCHANGED <<task, cv_queue>>
               /\ Goto(t, "notify_one_drop_guard")
    /\ UNCHANGED <<script, cvar, sched, mutexv, cv_spin,
                   atomic_unlock_and_block, rwv, hist>>

\* task.unblock(); true
\* Faulty variant of notify_one_unblock: drops the removed waiter without
\* unblocking it.
notify_one_unblock_skipped(t) ==
    /\ At(t, "notify_one_unblock")
    /\ task' = [task EXCEPT ![t] = NoTask]
    /\ rv' = [rv EXCEPT ![t] = TRUE]
    /\ Goto(t, "notify_one_drop_guard")
    /\ UNCHANGED <<script, cvar, sched, mutexv, condv, rwv, hist>>

notify_one_unblock(t) ==
    /\ At(t, "notify_one_unblock")
    /\ unblock(task[t])
    /\ task' = [task EXCEPT ![t] = NoTask]
    /\ rv' = [rv EXCEPT ![t] = TRUE]
    /\ Goto(t, "notify_one_drop_guard")
    /\ UNCHANGED <<script, cvar, oncpu, preempt, mutexv, condv, rwv, hist>>

\* end of scope: `_lock` is dropped first, then `queue`
\* Faulty variant of notify_one_drop_guard: returns without releasing the
\* atomic_unlock_and_block guard.
notify_one_drop_guard_skipped(t) ==
    /\ At(t, "notify_one_drop_guard")
    /\ Goto(t, "notify_one_drop_queue")
    /\ UNCHANGED <<script, locals, sched, mutexv, condv, rwv, hist>>

notify_one_drop_guard(t) ==
    /\ At(t, "notify_one_drop_guard")
    /\ atomic_unlock_and_block' = [atomic_unlock_and_block EXCEPT ![cvar[t]] = NoTask]
    /\ Goto(t, "notify_one_drop_queue")
    /\ UNCHANGED <<script, locals, sched, mutexv, cv_spin, cv_queue, rwv, hist>>

notify_one_drop_queue(t) ==
    /\ At(t, "notify_one_drop_queue")
    /\ cv_spin' = [cv_spin EXCEPT ![cvar[t]] = NoTask]
    /\ cvar' = [cvar EXCEPT ![t] = "cv"]
    /\ Return(t)
    /\ UNCHANGED <<script, task, rv, sched, mutexv, cv_queue,
                   atomic_unlock_and_block, rwv, hist>>

----------------------------------------------------------------------------
\* Condvar::notify_all  (condvar.rs 52-61)

notify_all_queue_lock(t) ==
    /\ At(t, "notify_all_queue_lock")
    /\ cv_spin[cvar[t]] = NoTask
    /\ cv_spin' = [cv_spin EXCEPT ![cvar[t]] = t]
    /\ Goto(t, "notify_all_guard_lock")
    /\ UNCHANGED <<script, locals, sched, mutexv, cv_queue,
                   atomic_unlock_and_block, rwv, hist>>

notify_all_guard_lock(t) ==
    /\ At(t, "notify_all_guard_lock")
    /\ atomic_unlock_and_block[cvar[t]] = NoTask
    /\ atomic_unlock_and_block' = [atomic_unlock_and_block EXCEPT ![cvar[t]] = t]
    /\ Goto(t, "notify_all_drain")
    /\ UNCHANGED <<script, locals, sched, mutexv, cv_spin, cv_queue, rwv, hist>>

\* Faulty variant of notify_all_drain: stops after the first waiter.
notify_all_drain_first_only(t) ==
    /\ At(t, "notify_all_drain")
    /\ IF cv_queue[cvar[t]] # <<>>
          THEN /\ unblock(Head(cv_queue[cvar[t]]))
               /\ cv_queue' = [cv_queue EXCEPT ![cvar[t]] = Tail(@)]
          ELSE UNCHANGED <<blocked, cv_queue>>
    /\ Goto(t, "notify_all_drop_guard")
    /\ UNCHANGED <<script, locals, oncpu, preempt, mutexv, cv_spin,
                   atomic_unlock_and_block, rwv, hist>>

\* for task in queue.drain(..) { task.unblock(); }   (one iteration per step)
notify_all_drain(t) ==
    /\ At(t, "notify_all_drain")
    /\ IF cv_queue[cvar[t]] # <<>>
          THEN /\ unblock(Head(cv_queue[cvar[t]]))
               /\ cv_queue' = [cv_queue EXCEPT ![cvar[t]] = Tail(@)]
               /\ Goto(t, "notify_all_drain")
          ELSE /\ UNCHANGED <<blocked, cv_queue>>
               /\ Goto(t, "notify_all_drop_guard")
    /\ UNCHANGED <<script, locals, oncpu, preempt, mutexv, cv_spin,
                   atomic_unlock_and_block, rwv, hist>>

notify_all_drop_guard(t) ==
    /\ At(t, "notify_all_drop_guard")
    /\ atomic_unlock_and_block' = [atomic_unlock_and_block EXCEPT ![cvar[t]] = NoTask]
    /\ Goto(t, "notify_all_drop_queue")
    /\ UNCHANGED <<script, locals, sched, mutexv, cv_spin, cv_queue, rwv, hist>>

notify_all_drop_queue(t) ==
    /\ At(t, "notify_all_drop_queue")
    /\ cv_spin' = [cv_spin EXCEPT ![cvar[t]] = NoTask]
    /\ cvar' = [cvar EXCEPT ![t] = "cv"]
    /\ Return(t)
    /\ UNCHANGED <<script, task, rv, sched, mutexv, cv_queue,
                   atomic_unlock_and_block, rwv, hist>>

----------------------------------------------------------------------------
\* Condvar::wait  (condvar.rs 68-86)

\* let mut queue = self.queue.lock();
wait_queue_lock(t) ==
    /\ At(t, "wait_queue_lock")
    /\ cv_spin[cvar[t]] = NoTask
    /\ cv_spin' = [cv_spin EXCEPT ![cvar[t]] = t]
    /\ Goto(t, "wait_push")
    /\ UNCHANGED <<script, locals, sched, mutexv, cv_queue,
                   atomic_unlock_and_block, rwv, hist>>

\* queue.push(current_task);
\* Faulty variant of wait_push: pushes the caller twice.
wait_push_twice(t) ==
    /\ At(t, "wait_push")
    /\ cv_queue' = [cv_queue EXCEPT ![cvar[t]] = Append(Append(@, t), t)]
    /\ Goto(t, "wait_drop_queue")
    /\ UNCHANGED <<script, locals, sched, mutexv, cv_spin,
                   atomic_unlock_and_block, rwv, hist>>

wait_push(t) ==
    /\ At(t, "wait_push")
    /\ cv_queue' = [cv_queue EXCEPT ![cvar[t]] = Append(@, t)]
    /\ Goto(t, "wait_drop_queue")
    /\ UNCHANGED <<script, locals, sched, mutexv, cv_spin,
                   atomic_unlock_and_block, rwv, hist>>

\* drop(queue);
wait_drop_queue(t) ==
    /\ At(t, "wait_drop_queue")
    /\ cv_spin' = [cv_spin EXCEPT ![cvar[t]] = NoTask]
    /\ Goto(t, "wait_guard_lock")
    /\ UNCHANGED <<script, locals, sched, mutexv, cv_queue,
                   atomic_unlock_and_block, rwv, hist>>

\* let atomic_unlock_and_block = self.atomic_unlock_and_block.lock();
wait_guard_lock(t) ==
    /\ At(t, "wait_guard_lock")
    /\ atomic_unlock_and_block[cvar[t]] = NoTask
    /\ atomic_unlock_and_block' = [atomic_unlock_and_block EXCEPT ![cvar[t]] = t]
    /\ Goto(t, "wait_unlock")
    /\ UNCHANGED <<script, locals, sched, mutexv, cv_spin, cv_queue, rwv, hist>>

\* unsafe { mutex.unlock() };
wait_unlock(t) ==
    /\ At(t, "wait_unlock")
    /\ owner' = owner \ {t}
    /\ Call(t, "unlock_hold", "wait_block")
    /\ UNCHANGED <<script, locals, sched, mutexv, condv, rwv,
                   rholders, wholders, owed, late>>

\* Faulty variant of wait_block: the waiter does not block before it yields.
wait_block_skipped(t) ==
    /\ At(t, "wait_block")
    /\ Goto(t, "wait_drop_guard")
    /\ UNCHANGED <<script, locals, sched, mutexv, condv, rwv, hist>>

\* current_task.block();
wait_block(t) ==
    /\ At(t, "wait_block")
    /\ block(t)
    /\ Goto(t, "wait_drop_guard")
    /\ UNCHANGED <<script, locals, oncpu, preempt, mutexv, condv, rwv, hist>>

\* drop(atomic_unlock_and_block);
wait_drop_guard(t) ==
    /\ At(t, "wait_drop_guard")
    /\ atomic_unlock_and_block' = [atomic_unlock_and_block EXCEPT ![cvar[t]] = NoTask]
    /\ Goto(t, "wait_yield")
    /\ UNCHANGED <<script, locals, sched, mutexv, cv_spin, cv_queue, rwv, hist>>

\* task::yield_now();
wait_yield(t) ==
    /\ At(t, "wait_yield")
    /\ oncpu' = [oncpu EXCEPT ![t] = FALSE]
    /\ Goto(t, "wait_relock")
    /\ UNCHANGED <<script, locals, blocked, preempt, mutexv, condv, rwv, hist>>

\* Faulty variant of wait_relock: returns without locking the mutex again.
wait_relock_no_lock(t) ==
    /\ At(t, "wait_relock")
    /\ Return(t)
    /\ UNCHANGED <<script, locals, sched, mutexv, condv, rwv, hist>>

\* unsafe { mutex.lock() };  wait returns when lock() does
wait_relock(t) ==
    /\ At(t, "wait_relock")
    /\ Goto(t, "lock_hold")
    /\ UNCHANGED <<script, locals, sched, mutexv, condv, rwv, hist>>

----------------------------------------------------------------------------
\* Condvar::wait_timeout  (condvar.rs 94-96)

\* Faulty variant of wait_timeout: waits without a timeout.
wait_timeout_waits(t) ==
    /\ At(t, "wait_timeout")
    /\ Goto(t, "wait_queue_lock")
    /\ UNCHANGED <<script, locals, sched, mutexv, condv, rwv, hist>>

\* todo!();
wait_timeout(t) ==
    /\ At(t, "wait_timeout")
    /\ Goto(t, "panicked")
    /\ UNCHANGED <<script, locals, sched, mutexv, condv, rwv, hist>>

----------------------------------------------------------------------------
\* User code of the Condvar specifications: the Mutex user code, and a task
\* holding the Mutex may wait on or notify the Condvar "cv".

UserWait(t) ==
    /\ At(t, "cs")
    /\ cvar' = [cvar EXCEPT ![t] = "cv"]
    /\ Call(t, "wait_queue_lock", "cs")
    /\ UNCHANGED <<script, task, rv, sched, mutexv, condv, rwv, hist>>

UserNotifyOne(t) ==
    /\ At(t, "cs")
    /\ cvar' = [cvar EXCEPT ![t] = "cv"]
    /\ Call(t, "notify_one_queue_lock", "after_notify")
    /\ UNCHANGED <<script, task, rv, sched, mutexv, condv, rwv, hist>>

UserNotifyAll(t) ==
    /\ At(t, "cs")
    /\ cvar' = [cvar EXCEPT ![t] = "cv"]
    /\ Call(t, "notify_all_queue_lock", "after_notify")
    /\ UNCHANGED <<script, task, rv, sched, mutexv, condv, rwv, hist>>

UserWaitTimeout(t) ==
    /\ At(t, "cs")
    /\ cvar' = [cvar EXCEPT ![t] = "cv"]
    /\ Call(t, "wait_timeout", "cs")
    /\ UNCHANGED <<script, task, rv, sched, mutexv, condv, rwv, hist>>

\* A notify from a task that does not hold the Mutex.
UserNotifyOneUnlocked(t) ==
    /\ At(t, "idle")
    /\ cvar' = [cvar EXCEPT ![t] = "cv"]
    /\ Call(t, "notify_one_queue_lock", "after_notify_unlocked")
    /\ UNCHANGED <<script, task, rv, sched, mutexv, condv, rwv, hist>>

UserNotifyAllUnlocked(t) ==
    /\ At(t, "idle")
    /\ cvar' = [cvar EXCEPT ![t] = "cv"]
    /\ Call(t, "notify_all_queue_lock", "after_notify_unlocked")
    /\ UNCHANGED <<script, task, rv, sched, mutexv, condv, rwv, hist>>

\* The caller drops the result of the notify.
UserAfterNotify(t) ==
    /\ At(t, "after_notify")
    /\ rv' = [rv EXCEPT ![t] = FALSE]
    /\ Goto(t, "cs")
    /\ UNCHANGED <<script, cvar, task, sched, mutexv, condv, rwv, hist>>

UserAfterNotifyUnlocked(t) ==
    /\ At(t, "after_notify_unlocked")
    /\ rv' = [rv EXCEPT ![t] = FALSE]
    /\ Goto(t, "idle")
    /\ UNCHANGED <<script, cvar, task, sched, mutexv, condv, rwv, hist>>

NotifyOneStep(t) ==
    \/ notify_one_queue_lock(t) \/ notify_one_guard_lock(t)
    \/ notify_one_test(t) \/ notify_one_unblock(t)
    \/ notify_one_drop_guard(t) \/ notify_one_drop_queue(t)

NotifyAllStep(t) ==
    \/ notify_all_queue_lock(t) \/ notify_all_guard_lock(t)
    \/ notify_all_drain(t)
    \/ notify_all_drop_guard(t) \/ notify_all_drop_queue(t)

NotifyStep(t) == NotifyOneStep(t) \/ NotifyAllStep(t)

\* The RwLock calls notify_one on `writers` only, and nothing pushes onto that
\* queue (read and write both wait on `readers`): its notify_one never gets
\* to `task.unblock()`, which is left out of the RwLock specifications.
NotifyOneNoWaiterStep(t) ==
    \/ notify_one_queue_lock(t) \/ notify_one_guard_lock(t)
    \/ notify_one_test(t)
    \/ notify_one_drop_guard(t) \/ notify_one_drop_queue(t)

WaitStep(t) ==
    \/ wait_queue_lock(t) \/ wait_push(t) \/ wait_drop_queue(t)
    \/ wait_guard_lock(t) \/ wait_unlock(t) \/ wait_block(t)
    \/ wait_drop_guard(t) \/ wait_yield(t) \/ wait_relock(t)

CondvarUser(t) ==
    \/ UserWait(t) \/ UserNotifyOne(t) \/ UserNotifyAll(t) \/ UserAfterNotify(t)

----------------------------------------------------------------------------
\* Condvar::wait_spin  (condvar.rs 103-125), called by RwLock::read / write
\* with the guard of RwLock.state

wait_spin_queue_lock(t) ==
    /\ At(t, "wait_spin_queue_lock")
    /\ cv_spin[cvar[t]] = NoTask
    /\ cv_spin' = [cv_spin EXCEPT ![cvar[t]] = t]
    /\ Goto(t, "wait_spin_push")
    /\ UNCHANGED <<script, locals, sched, mutexv, cv_queue,
                   atomic_unlock_and_block, rwv, hist>>

wait_spin_push(t) ==
    /\ At(t, "wait_spin_push")
    /\ cv_queue' = [cv_queue EXCEPT ![cvar[t]] = Append(@, t)]
    /\ Goto(t, "wait_spin_drop_queue")
    /\ UNCHANGED <<script, locals, sched, mutexv, cv_spin,
                   atomic_unlock_and_block, rwv, hist>>

wait_spin_drop_queue(t) ==
    /\ At(t, "wait_spin_drop_queue")
    /\ cv_spin' = [cv_spin EXCEPT ![cvar[t]] = NoTask]
    /\ Goto(t, "wait_spin_guard_lock")
    /\ UNCHANGED <<script, locals, sched, mutexv, cv_queue,
                   atomic_unlock_and_block, rwv, hist>>

wait_spin_guard_lock(t) ==
    /\ At(t, "wait_spin_guard_lock")
    /\ atomic_unlock_and_block[cvar[t]] = NoTask
    /\ atomic_unlock_and_block' = [atomic_unlock_and_block EXCEPT ![cvar[t]] = t]
    /\ Goto(t, "wait_spin_drop_mutex")
    /\ UNCHANGED <<script, locals, sched, mutexv, cv_spin, cv_queue, rwv, hist>>

\* drop(guard);   (unlocks RwLock.state)
wait_spin_drop_mutex(t) ==
    /\ At(t, "wait_spin_drop_mutex")
    /\ rw_spin' = NoTask
    /\ Goto(t, "wait_spin_block")
    /\ UNCHANGED <<script, locals, sched, mutexv, condv, rw_state, hist>>

\* Faulty variant of wait_spin_block: the waiter does not block before it
\* yields.
wait_spin_block_skipped(t) ==
    /\ At(t, "wait_spin_block")
    /\ Goto(t, "wait_spin_drop_guard")
    /\ UNCHANGED <<script, locals, sched, mutexv, condv, rwv, hist>>

wait_spin_block(t) ==
    /\ At(t, "wait_spin_block")
    /\ block(t)
    /\ Goto(t, "wait_spin_drop_guard")
    /\ UNCHANGED <<script, locals, oncpu, preempt, mutexv, condv, rwv, hist>>

wait_spin_drop_guard(t) ==
    /\ At(t, "wait_spin_drop_guard")
    /\ atomic_unlock_and_block' = [atomic_unlock_and_block EXCEPT ![cvar[t]] = NoTask]
    /\ Goto(t, "wait_spin_yield")
    /\ UNCHANGED <<script, locals, sched, mutexv, cv_spin, cv_queue, rwv, hist>>

wait_spin_yield(t) ==
    /\ At(t, "wait_spin_yield")
    /\ oncpu' = [oncpu EXCEPT ![t] = FALSE]
    /\ Goto(t, "wait_spin_relock")
    /\ UNCHANGED <<script, locals, blocked, preempt, mutexv, condv, rwv, hist>>

\* mutex.lock()   (the returned guard of RwLock.state)
wait_spin_relock(t) ==
    /\ At(t, "wait_spin_relock")
    /\ rw_spin = NoTask
    /\ rw_spin' = t
    /\ cvar' = [cvar EXCEPT ![t] = "cv"]
    /\ Return(t)
    /\ UNCHANGED <<script, task, rv, sched, mutexv, condv, rw_state, hist>>

WaitSpinStep(t) ==
    \/ wait_spin_queue_lock(t) \/ wait_spin_push(t) \/ wait_spin_drop_queue(t)
    \/ wait_spin_guard_lock(t) \/ wait_spin_drop_mutex(t) \/ wait_spin_block(t)
    \/ wait_spin_drop_guard(t) \/ wait_spin_yield(t) \/ wait_spin_relock(t)

----------------------------------------------------------------------------
\* RwLock State  (rwlock.rs 89-152).  Each transition yields the new state,
\* the value returned and whether it panicked.

Unlocked == [k |-> "Unlocked", n |-> 0]
Reading(n) == [k |-> "Reading", n |-> n]
Writing == [k |-> "Writing", n |-> 0]

\* Faulty variant of inc_readers: grants read access in Writing.
inc_readers_while_writing(s) ==
    CASE s.k = "Unlocked" -> [state |-> Reading(1), ok |-> TRUE, panic |-> FALSE]
      [] s.k = "Reading" -> [state |-> Reading(s.n + 1), ok |-> TRUE, panic |-> FALSE]
      [] s.k = "Writing" -> [state |-> Reading(1), ok |-> TRUE, panic |-> FALSE]

inc_readers(s) ==
    CASE s.k = "Unlocked" -> [state |-> Reading(1), ok |-> TRUE, panic |-> FALSE]
      [] s.k = "Reading" -> [state |-> Reading(s.n + 1), ok |-> TRUE, panic |-> FALSE]
      [] s.k = "Writing" -> [state |-> s, ok |-> FALSE, panic |-> FALSE]

\* Faulty variant of inc_writers: grants write access over readers.
inc_writers_over_readers(s) ==
    CASE s.k \in {"Unlocked", "Reading"} -> [state |-> Writing, ok |-> TRUE, panic |-> FALSE]
      [] s.k = "Writing" -> [state |-> s, ok |-> FALSE, panic |-> FALSE]

inc_writers(s) ==
    CASE s.k = "Unlocked" -> [state |-> Writing, ok |-> TRUE, panic |-> FALSE]
      [] s.k \in {"Reading", "Writing"} -> [state |-> s, ok |-> FALSE, panic |-> FALSE]

\* Faulty variant of dec_readers: keeps Reading when the count reaches zero.
dec_readers_keeps_reading(s) ==
    CASE s.k = "Reading" ->
            [state |-> Reading(s.n - 1), ok |-> (s.n - 1 = 0), panic |-> FALSE]
      [] s.k \in {"Unlocked", "Writing"} -> [state |-> s, ok |-> FALSE, panic |-> TRUE]

\* Faulty variant of dec_readers: takes a state without readers for the last
\* reader leaving.
dec_readers_lenient(s) ==
    CASE s.k = "Reading" ->
            IF s.n - 1 = 0
               THEN [state |-> Unlocked, ok |-> TRUE, panic |-> FALSE]
               ELSE [state |-> Reading(s.n - 1), ok |-> FALSE, panic |-> FALSE]
      [] s.k \in {"Unlocked", "Writing"} -> [state |-> Unlocked, ok |-> TRUE, panic |-> FALSE]

\* returns whether the count reached zero
dec_readers(s) ==
    CASE s.k = "Reading" ->
            IF s.n - 1 = 0
               THEN [state |-> Unlocked, ok |-> TRUE, panic |-> FALSE]
               ELSE [state |-> Reading(s.n - 1), ok |-> FALSE, panic |-> FALSE]
      [] s.k \in {"Unlocked", "Writing"} -> [state |-> s, ok |-> FALSE, panic |-> TRUE]

\* Faulty variant of dec_writers: leaves the state Writing.
dec_writers_keeps_writing(s) ==
    IF s.k = "Writing"
       THEN [state |-> Writing, ok |-> TRUE, panic |-> FALSE]
       ELSE [state |-> s, ok |-> FALSE, panic |-> TRUE]

dec_writers(s) ==
    CASE s.k = "Writing" -> [state |-> Unlocked, ok |-> TRUE, panic |-> FALSE]
      [] s.k \in {"Unlocked", "Reading"} -> [state |-> s, ok |-> FALSE, panic |-> TRUE]

\* The calls that park on a Condvar of the RwLock, by their return address.
ParkedAsWriter(t) == InSeq("write_try", ret[t])
ParkedAsReader(t) == InSeq("read_try", ret[t])

\* Every task in a wait queue of the RwLock.
RwParked == {t \in AllTasks : InSeq(t, cv_queue["readers"]) \/ InSeq(t, cv_queue["writers"])}

\* t is behind a parked writer in a wait queue of the RwLock.
BehindWriter(t) ==
    \E c \in {"readers", "writers"} : \E i, j \in 1 .. Len(cv_queue[c]) :
        i < j /\ cv_queue[c][j] = t /\ ParkedAsWriter(cv_queue[c][i])

\* History kept when the state becomes Unlocked / stops being Unlocked.
RecordUnlocked(new) ==
    IF new.k = "Unlocked"
       THEN /\ owed' = {t \in RwParked : ParkedAsWriter(t)}
            /\ late' = {t \in RwParked : ParkedAsReader(t) /\ BehindWriter(t)}
       ELSE UNCHANGED <<owed, late>>

RecordAcquired == owed' = {} /\ late' = {}

----------------------------------------------------------------------------
\* RwLock::read  (rwlock.rs 29-35)

read_state_lock(t) ==
    /\ At(t, "read_state_lock")
    /\ rw_spin = NoTask
    /\ rw_spin' = t
    /\ Goto(t, "read_try")
    /\ UNCHANGED <<script, locals, sched, mutexv, condv, rw_state, hist>>

\* while !state.inc_readers() { state = self.readers.wait_spin(&self.state, state) }
read_try(t) ==
    /\ At(t, "read_try")
    /\ LET r == inc_readers(rw_state) IN
         /\ rw_state' = r.state
         /\ IF r.ok
               THEN /\ Goto(t, "read_return")
                    /\ cvar' = cvar
                    /\ RecordAcquired
               ELSE /\ Call(t, "wait_spin_queue_lock", "read_try")
                    /\ cvar' = [cvar EXCEPT ![t] = "readers"]
                    /\ UNCHANGED <<owed, late>>
    /\ UNCHANGED <<script, task, rv, sched, mutexv, condv, rw_spin,
                   owner, rholders, wholders>>

\* end of scope: `state` is dropped
read_return(t) ==
    /\ At(t, "read_return")
    /\ rw_spin' = NoTask
    /\ rholders' = rholders \cup {t}
    /\ Return(t)
    /\ UNCHANGED <<script, locals, sched, mutexv, condv, rw_state,
                   owner, wholders, owed, late>>

\* RwLock::try_read  (rwlock.rs 38-41)

try_read_state_lock(t) ==
    /\ At(t, "try_read_state_lock")
    /\ rw_spin = NoTask
    /\ rw_spin' = t
    /\ Goto(t, "try_read_try")
    /\ UNCHANGED <<script, locals, sched, mutexv, condv, rw_state, hist>>

\* Faulty variant of try_read_try: waits like read() when the attempt fails.
try_read_try_parks(t) ==
    /\ At(t, "try_read_try")
    /\ LET r == inc_readers(rw_state) IN
         /\ rw_state' = r.state
         /\ IF r.ok
               THEN /\ rv' = [rv EXCEPT ![t] = TRUE]
                    /\ Goto(t, "try_read_return")
                    /\ cvar' = cvar
                    /\ RecordAcquired
               ELSE /\ rv' = rv
                    /\ Call(t, "wait_spin_queue_lock", "try_read_try")
                    /\ cvar' = [cvar EXCEPT ![t] = "readers"]
                    /\ UNCHANGED <<owed, late>>
    /\ UNCHANGED <<script, task, sched, mutexv, condv, rw_spin,
                   owner, rholders, wholders>>

try_read_try(t) ==
    /\ At(t, "try_read_try")
    /\ LET r == inc_readers(rw_state) IN
         /\ rw_state' = r.state
         /\ rv' = [rv EXCEPT ![t] = r.ok]
         /\ IF r.ok THEN RecordAcquired ELSE UNCHANGED <<owed, late>>
    /\ Goto(t, "try_read_return")
    /\ UNCHANGED <<script, cvar, task, sched, mutexv, condv, rw_spin,
                   owner, rholders, wholders>>

try_read_return(t) ==
    /\ At(t, "try_read_return")
    /\ rw_spin' = NoTask
    /\ rholders' = IF rv[t] THEN rholders \cup {t} ELSE rholders
    /\ Return(t)
    /\ UNCHANGED <<script, locals, sched, mutexv, condv, rw_state,
                   owner, wholders, owed, late>>

\* RwLock::write  (rwlock.rs 44-50)

write_state_lock(t) ==
    /\ At(t, "write_state_lock")
    /\ rw_spin = NoTask
    /\ rw_spin' = t
    /\ Goto(t, "write_try")
    /\ UNCHANGED <<script, locals, sched, mutexv, condv, rw_state, hist>>

\* while !state.inc_writers() { state = self.readers.wait_spin(&self.state, state) }
\* Faulty variant of write_try: a failed writer waits on `writers`.
write_try_parks_on_writers(t) ==
    /\ At(t, "write_try")
    /\ LET r == inc_writers(rw_state) IN
         /\ rw_state' = r.state
         /\ IF r.ok
               THEN /\ Goto(t, "write_return")
                    /\ cvar' = cvar
                    /\ RecordAcquired
               ELSE /\ Call(t, "wait_spin_queue_lock", "write_try")
                    /\ cvar' = [cvar EXCEPT ![t] = "writers"]
                    /\ UNCHANGED <<owed, late>>
    /\ UNCHANGED <<script, task, rv, sched, mutexv, condv, rw_spin,
                   owner, rholders, wholders>>

write_try(t) ==
    /\ At(t, "write_try")
    /\ LET r == inc_writers(rw_state) IN
         /\ rw_state' = r.state
         /\ IF r.ok
               THEN /\ Goto(t, "write_return")
                    /\ cvar' = cvar
                    /\ RecordAcquired
               ELSE /\ Call(t, "wait_spin_queue_lock", "write_try")
                    /\ cvar' = [cvar EXCEPT ![t] = "readers"]
                    /\ UNCHANGED <<owed, late>>
    /\ UNCHANGED <<script, task, rv, sched, mutexv, condv, rw_spin,
                   owner, rholders, wholders>>

write_return(t) ==
    /\ At(t, "write_return")
    /\ rw_spin' = NoTask
    /\ wholders' = wholders \cup {t}
    /\ Return(t)
    /\ UNCHANGED <<script, locals, sched, mutexv, condv, rw_state,
                   owner, rholders, owed, late>>

\* RwLock::try_write  (rwlock.rs 53-56)

try_write_state_lock(t) ==
    /\ At(t, "try_write_state_lock")
    /\ rw_spin = NoTask
    /\ rw_spin' = t
    /\ Goto(t, "try_write_try")
    /\ UNCHANGED <<script, locals, sched, mutexv, condv, rw_state, hist>>

try_write_try(t) ==
    /\ At(t, "try_write_try")
    /\ LET r == inc_writers(rw_state) IN
         /\ rw_state' = r.state
         /\ rv' = [rv EXCEPT ![t] = r.ok]
         /\ IF r.ok THEN RecordAcquired ELSE UNCHANGED <<owed, late>>
    /\ Goto(t, "try_write_return")
    /\ UNCHANGED <<script, cvar, task, sched, mutexv, condv, rw_spin,
                   owner, rholders, wholders>>

try_write_return(t) ==
    /\ At(t, "try_write_return")
    /\ rw_spin' = NoTask
    /\ wholders' = IF rv[t] THEN wholders \cup {t} ELSE wholders
    /\ Return(t)
    /\ UNCHANGED <<script, locals, sched, mutexv, condv, rw_state,
                   owner, rholders, owed, late>>

----------------------------------------------------------------------------
\* RwLock::read_unlock  (rwlock.rs 64-70)

read_unlock_state_lock(t) ==
    /\ At(t, "read_unlock_state_lock")
    /\ rw_spin = NoTask
    /\ rw_spin' = t
    /\ Goto(t, "read_unlock_dec")
    /\ UNCHANGED <<script, locals, sched, mutexv, condv, rw_state, hist>>

\* Faulty variant of read_unlock_dec: notifies `writers` after every
\* decrement, not only the last one.
read_unlock_dec_always_notifies(t) ==
    /\ At(t, "read_unlock_dec")
    /\ LET r == dec_readers(rw_state) IN
         /\ rw_state' = r.state
         /\ RecordUnlocked(r.state)
         /\ IF r.panic
               THEN Goto(t, "panicked") /\ cvar' = cvar
               ELSE /\ Call(t, "notify_one_queue_lock", "read_unlock_return")
                    /\ cvar' = [cvar EXCEPT ![t] = "writers"]
    /\ UNCHANGED <<script, task, rv, sched, mutexv, condv, rw_spin,
                   owner, rholders, wholders>>

\* if state.dec_readers() { unsafe { self.writers.notify_one() }; }
read_unlock_dec(t) ==
    /\ At(t, "read_unlock_dec")
    /\ LET r == dec_readers(rw_state) IN
         /\ rw_state' = r.state
         /\ RecordUnlocked(r.state)
         /\ IF r.panic
               THEN Goto(t, "panicked") /\ cvar' = cvar
               ELSE IF r.ok
                       THEN /\ Call(t, "notify_one_queue_lock", "read_unlock_return")
                            /\ cvar' = [cvar EXCEPT ![t] = "writers"]
                       ELSE Goto(t, "read_unlock_return") /\ cvar' = cvar
    /\ UNCHANGED <<script, task, rv, sched, mutexv, condv, rw_spin,
                   owner, rholders, wholders>>

read_unlock_return(t) ==
    /\ At(t, "read_unlock_return")
    /\ rw_spin' = NoTask
    /\ rv' = [rv EXCEPT ![t] = FALSE]
    /\ Return(t)
    /\ UNCHANGED <<script, cvar, task, sched, mutexv, condv, rw_state, hist>>

\* RwLock::write_unlock  (rwlock.rs 79-86)

write_unlock_state_lock(t) ==
    /\ At(t, "write_unlock_state_lock")
    /\ rw_spin = NoTask
    /\ rw_spin' = t
    /\ Goto(t, "write_unlock_dec")
    /\ UNCHANGED <<script, locals, sched, mutexv, condv, rw_state, hist>>

\* state.dec_writers();  then  self.writers.notify_one()
write_unlock_dec(t) ==
    /\ At(t, "write_unlock_dec")
    /\ LET r == dec_writers(rw_state) IN
         /\ rw_state' = r.state
         /\ RecordUnlocked(r.state)
         /\ IF r.panic
               THEN Goto(t, "panicked") /\ cvar' = cvar
               ELSE /\ Call(t, "notify_one_queue_lock", "write_unlock_check")
                    /\ cvar' = [cvar EXCEPT ![t] = "writers"]
    /\ UNCHANGED <<script, task, rv, sched, mutexv, condv, rw_spin,
                   owner, rholders, wholders>>

\* if !notify_one() { unsafe { self.readers.notify_all() }; }
write_unlock_check(t) ==
    /\ At(t, "write_unlock_check")
    /\ IF ~rv[t]
          THEN /\ Call(t, "notify_all_queue_lock", "write_unlock_return")
               /\ cvar' = [cvar EXCEPT ![t] = "readers"]
          ELSE Goto(t, "write_unlock_return") /\ cvar' = cvar
    /\ rv' = [rv EXCEPT ![t] = FALSE]
    /\ UNCHANGED <<script, task, sched, mutexv, condv, rwv, hist>>

write_unlock_return(t) ==
    /\ At(t, "write_unlock_return")
    /\ rw_spin' = NoTask
    /\ Return(t)
    /\ UNCHANGED <<script, locals, sched, mutexv, condv, rw_state, hist>>

RwLockStep(t) ==
    \/ read_state_lock(t) \/ read_try(t) \/ read_return(t)
    \/ try_read_state_lock(t) \/ try_read_try(t) \/ try_read_return(t)
    \/ write_state_lock(t) \/ write_try(t) \/ write_return(t)
    \/ try_write_state_lock(t) \/ try_write_try(t) \/ try_write_return(t)
    \/ read_unlock_state_lock(t) \/ read_unlock_dec(t) \/ read_unlock_return(t)
    \/ write_unlock_state_lock(t) \/ write_unlock_dec(t)
    \/ write_unlock_check(t) \/ write_unlock_return(t)

----------------------------------------------------------------------------
\* User code of the RwLock specification: any task may ask for read or write
\* access at any time; only holders unlock.

UserRead(t) ==
    /\ At(t, "idle")
    /\ Call(t, "read_state_lock", "reading")
    /\ UNCHANGED <<script, locals, sched, mutexv, condv, rwv, hist>>

UserTryRead(t) ==
    /\ At(t, "idle")
    /\ Call(t, "try_read_state_lock", "after_try_read")
    /\ UNCHANGED <<script, locals, sched, mutexv, condv, rwv, hist>>

UserAfterTryRead(t) ==
    /\ At(t, "after_try_read")
    /\ Goto(t, IF rv[t] THEN "reading" ELSE "idle")
    /\ rv' = [rv EXCEPT ![t] = FALSE]
    /\ UNCHANGED <<script, cvar, task, sched, mutexv, condv, rwv, hist>>

UserWrite(t) ==
    /\ At(t, "idle")
    /\ Call(t, "write_state_lock", "writing")
    /\ UNCHANGED <<script, locals, sched, mutexv, condv, rwv, hist>>

UserTryWrite(t) ==
    /\ At(t, "idle")
    /\ Call(t, "try_write_state_lock", "after_try_write")
    /\ UNCHANGED <<script, locals, sched, mutexv, condv, rwv, hist>>

UserAfterTryWrite(t) ==
    /\ At(t, "after_try_write")
    /\ Goto(t, IF rv[t] THEN "writing" ELSE "idle")
    /\ rv' = [rv EXCEPT ![t] = FALSE]
    /\ UNCHANGED <<script, cvar, task, sched, mutexv, condv, rwv, hist>>

UserReadUnlock(t) ==
    /\ At(t, "reading")
    /\ rholders' = rholders \ {t}
    /\ Call(t, "read_unlock_state_lock", "idle")
    /\ UNCHANGED <<script, locals, sched, mutexv, condv, rwv,
                   owner, wholders, owed, late>>

UserWriteUnlock(t) ==
    /\ At(t, "writing")
    /\ wholders' = wholders \ {t}
    /\ Call(t, "write_unlock_state_lock", "idle")
    /\ UNCHANGED <<script, locals, sched, mutexv, condv, rwv,
                   owner, rholders, owed, late>>

RwLockUser(t) ==
    \/ UserRead(t) \/ UserTryRead(t) \/ UserAfterTryRead(t)
    \/ UserWrite(t) \/ UserTryWrite(t) \/ UserAfterTryWrite(t)
    \/ UserReadUnlock(t) \/ UserWriteUnlock(t)

\* Callers that break the safety contract of the unlocks: a task that holds
\* no access calls read_unlock or write_unlock.
UserReadUnlockUnheld(t) ==
    /\ At(t, "idle")
    /\ Call(t, "read_unlock_state_lock", "idle")
    /\ UNCHANGED <<script, locals, sched, mutexv, condv, rwv, hist>>

UserWriteUnlockUnheld(t) ==
    /\ At(t, "idle")
    /\ Call(t, "write_unlock_state_lock", "idle")
    /\ UNCHANGED <<script, locals, sched, mutexv, condv, rwv, hist>>

\* panic!() in dec_readers / dec_writers: unwinding drops the `state` guard
\* of the unlock and ends the task.
panic_unwind(t) ==
    /\ At(t, "panicked")
    /\ rw_spin' = NoTask
    /\ pc' = [pc EXCEPT ![t] = "dead"]
    /\ ret' = [ret EXCEPT ![t] = <<>>]
    /\ UNCHANGED <<script, locals, sched, mutexv, condv, rw_state, hist>>

----------------------------------------------------------------------------
\* task::get_my_current_task() returning None: the other outcome of the
\* statements that ask the scheduler for the current task.

\* Faulty variant of lock_no_task: pushes before it fails.
lock_no_task_after_push(t) ==
    /\ At(t, "lock_push")
    /\ queue' = Append(queue, t)
    /\ Goto(t, "panicked")
    /\ UNCHANGED <<script, locals, sched, m_spin, is_locked, condv, rwv, hist>>

\* Mutex::lock: .expect("... couldn't get current task")   (mutex.rs 45-46)
lock_no_task(t) ==
    /\ At(t, "lock_push")
    /\ Goto(t, "panicked")
    /\ UNCHANGED <<script, locals, sched, mutexv, condv, rwv, hist>>

\* Condvar::wait: task::get_my_current_task().unwrap()   (condvar.rs 69)
wait_no_task(t) ==
    /\ At(t, "wait_queue_lock")
    /\ Goto(t, "panicked")
    /\ UNCHANGED <<script, locals, sched, mutexv, condv, rwv, hist>>

\* Condvar::wait_spin: task::get_my_current_task().unwrap()   (condvar.rs 108)
wait_spin_no_task(t) ==
    /\ At(t, "wait_spin_queue_lock")
    /\ Goto(t, "panicked")
    /\ UNCHANGED <<script, locals, sched, mutexv, condv, rwv, hist>>

\* Unwinding drops what the panicking call owns: `state` and `guard` in
\* lock, the spinlock guard passed to wait_spin; wait owns nothing.
no_task_unwind(t) ==
    /\ At(t, "panicked")
    /\ m_spin' = IF m_spin = t THEN NoTask ELSE m_spin
    /\ rw_spin' = IF rw_spin = t THEN NoTask ELSE rw_spin
    /\ preempt' = [preempt EXCEPT ![t] = FALSE]
    /\ pc' = [pc EXCEPT ![t] = "dead"]
    /\ ret' = [ret EXCEPT ![t] = <<>>]
    /\ UNCHANGED <<script, locals, blocked, oncpu, is_locked, queue, condv,
                   rw_state, hist>>

----------------------------------------------------------------------------
\* User code of the scenario specifications: task t makes the calls of
\* script[t] in order, each when the one before has returned.

Scripted(t, op) == At(t, "user") /\ script[t] # <<>> /\ Head(script[t]) = op

NextCall(t) == script' = [script EXCEPT ![t] = Tail(@)]

ScriptLock(t) ==
    /\ Scripted(t, "lock")
    /\ NextCall(t)
    /\ Call(t, "lock_hold", "user")
    /\ UNCHANGED <<locals, sched, mutexv, condv, rwv, hist>>

ScriptUnlock(t) ==
    /\ Scripted(t, "unlock")
    /\ NextCall(t)
    /\ owner' = owner \ {t}
    /\ Call(t, "unlock_hold", "user")
    /\ UNCHANGED <<locals, sched, mutexv, condv, rwv, rholders, wholders, owed, late>>

ScriptWait(t) ==
    /\ Scripted(t, "wait")
    /\ NextCall(t)
    /\ cvar' = [cvar EXCEPT ![t] = "cv"]
    /\ Call(t, "wait_queue_lock", "user")
    /\ UNCHANGED <<task, rv, sched, mutexv, condv, rwv, hist>>

ScriptNotifyOne(t) ==
    /\ Scripted(t, "notify_one")
    /\ NextCall(t)
    /\ cvar' = [cvar EXCEPT ![t] = "cv"]
    /\ Call(t, "notify_one_queue_lock", "user")
    /\ UNCHANGED <<task, rv, sched, mutexv, condv, rwv, hist>>

ScriptRead(t) ==
    /\ Scripted(t, "read")
    /\ NextCall(t)
    /\ Call(t, "read_state_lock", "user")
    /\ UNCHANGED <<locals, sched, mutexv, condv, rwv, hist>>

ScriptReadUnlock(t) ==
    /\ Scripted(t, "read_unlock")
    /\ NextCall(t)
    /\ rholders' = rholders \ {t}
    /\ Call(t, "read_unlock_state_lock", "user")
    /\ UNCHANGED <<locals, sched, mutexv, condv, rwv, owner, wholders, owed, late>>

ScriptWrite(t) ==
    /\ Scripted(t, "write")
    /\ NextCall(t)
    /\ Call(t, "write_state_lock", "user")
    /\ UNCHANGED <<locals, sched, mutexv, condv, rwv, hist>>

ScriptWriteUnlock(t) ==
    /\ Scripted(t, "write_unlock")
    /\ NextCall(t)
    /\ wholders' = wholders \ {t}
    /\ Call(t, "write_unlock_state_lock", "user")
    /\ UNCHANGED <<locals, sched, mutexv, condv, rwv, owner, rholders, owed, late>>

\* Task t has made every call of its script and the last one has returned.
Finished(t) == pc[t] = "user" /\ script[t] = <<>>

----------------------------------------------------------------------------
\* Initial state: every primitive as its `new()` leaves it.

InitWith(active, start, scripts) ==
    /\ pc = [t \in AllTasks |-> IF t \in active THEN start ELSE "off"]
    /\ ret = [t \in AllTasks |-> <<>>]
    /\ script = scripts
    /\ cvar = [t \in AllTasks |-> "cv"]
    /\ task = [t \in AllTasks |-> NoTask]
    /\ rv = [t \in AllTasks |-> FALSE]
    /\ blocked = [t \in AllTasks |-> FALSE]
    /\ oncpu = [t \in AllTasks |-> TRUE]
    /\ preempt = [t \in AllTasks |-> FALSE]
    /\ m_spin = NoTask
    /\ is_locked = FALSE
    /\ queue = <<>>
    /\ cv_spin = [c \in Condvars |-> NoTask]
    /\ cv_queue = [c \in Condvars |-> <<>>]
    /\ atomic_unlock_and_block = [c \in Condvars |-> NoTask]
    /\ rw_spin = NoTask
    /\ rw_state = Unlocked
    /\ owner = {}
    /\ rholders = {}
    /\ wholders = {}
    /\ owed = {}
    /\ late = {}

NoScripts == [t \in AllTasks |-> <<>>]

\* Mutex: NTasks tasks calling lock / try_lock / unlock in any order.
InitMutex == InitWith(Tasks, "idle", NoScripts)

NextMutex == \E t \in Tasks : MutexStep(t) \/ MutexUser(t) \/ Resume(t)

SpecMutex == InitMutex /\ [][NextMutex]_vars

\* Mutex under fair scheduling: tasks calling lock / unlock in any order; a
\* task inside a primitive that can take its next statement, or that is
\* runnable and off its core, eventually does.
NextMutexFair ==
    \E t \in Tasks : \/ LockStep(t) \/ UnlockStep(t)
                     \/ UserLock(t) \/ UserUnlock(t) \/ Resume(t)

SpecMutexFair ==
    /\ InitMutex
    /\ [][NextMutexFair]_vars
    /\ \A t \in Tasks : WF_vars(LockStep(t) \/ UnlockStep(t) \/ Resume(t))

\* Mutex under fair scheduling with holders that let go: as above, and a
\* task in its critical section eventually calls unlock.
SpecMutexLive ==
    /\ InitMutex
    /\ [][NextMutexFair]_vars
    /\ \A t \in Tasks :
          WF_vars(LockStep(t) \/ UnlockStep(t) \/ Resume(t) \/ UserUnlock(t))

\* Mutex with preemption: the same, and the scheduler may take a task that
\* holds no preemption guard off its core at any statement of a primitive.
NextMutexPreempt ==
    \E t \in Tasks : MutexStep(t) \/ MutexUser(t) \/ Resume(t) \/ Preempt(t)

SpecMutexPreempt == InitMutex /\ [][NextMutexPreempt]_vars

\* Condvar under its contract: tasks lock the Mutex and, holding it, wait on
\* or notify the Condvar, or unlock.
NextCondvar ==
    \E t \in Tasks : \/ UserLock(t) \/ UserUnlock(t) \/ CondvarUser(t)
                     \/ LockStep(t) \/ UnlockStep(t)
                     \/ NotifyStep(t) \/ WaitStep(t) \/ Resume(t)

SpecCondvar == InitMutex /\ [][NextCondvar]_vars

\* Condvar whose users also call wait_timeout (wait, notify_one and
\* wait_timeout under the Mutex; notify_all is left to SpecCondvar).
NextCondvarTimeout ==
    \E t \in Tasks : \/ UserLock(t) \/ UserUnlock(t)
                     \/ UserWait(t) \/ UserNotifyOne(t) \/ UserAfterNotify(t)
                     \/ UserWaitTimeout(t) \/ wait_timeout(t)
                     \/ LockStep(t) \/ UnlockStep(t)
                     \/ NotifyOneStep(t) \/ WaitStep(t) \/ Resume(t)

SpecCondvarTimeout == InitMutex /\ [][NextCondvarTimeout]_vars

\* Condvar with notifiers that may or may not hold the Mutex.
NextCondvarAny ==
    \E t \in Tasks : \/ UserLock(t) \/ UserUnlock(t) \/ CondvarUser(t)
                     \/ UserNotifyOneUnlocked(t) \/ UserNotifyAllUnlocked(t)
                     \/ UserAfterNotifyUnlocked(t)
                     \/ LockStep(t) \/ UnlockStep(t)
                     \/ NotifyStep(t) \/ WaitStep(t) \/ Resume(t)

SpecCondvarAny == InitMutex /\ [][NextCondvarAny]_vars

\* RwLock: NTasks tasks calling read / try_read / write / try_write and
\* unlocking what they hold.
NextRwLock ==
    \E t \in Tasks : \/ RwLockStep(t) \/ RwLockUser(t) \/ WaitSpinStep(t)
                     \/ NotifyOneNoWaiterStep(t) \/ NotifyAllStep(t) \/ Resume(t)

SpecRwLock == InitMutex /\ [][NextRwLock]_vars

\* The RwLock specification under fair scheduling: a task that can take a
\* step eventually takes one, so whoever acquires the RwLock releases it.
RwLockTaskStep(t) ==
    \/ RwLockStep(t) \/ RwLockUser(t) \/ WaitSpinStep(t)
    \/ NotifyOneNoWaiterStep(t) \/ NotifyAllStep(t) \/ Resume(t)

SpecRwLockFair ==
    /\ InitMutex
    /\ [][NextRwLock]_vars
    /\ \A t \in Tasks : WF_vars(RwLockTaskStep(t))

\* RwLock with callers that also unlock what they do not hold (read, write
\* and the two unlocks; try_read and try_write are left to SpecRwLock).
NextRwLockMisuse ==
    \E t \in Tasks :
        \/ UserRead(t) \/ UserWrite(t) \/ UserReadUnlock(t) \/ UserWriteUnlock(t)
        \/ UserReadUnlockUnheld(t) \/ UserWriteUnlockUnheld(t)
        \/ read_state_lock(t) \/ read_try(t) \/ read_return(t)
        \/ write_state_lock(t) \/ write_try(t) \/ write_return(t)
        \/ read_unlock_state_lock(t) \/ read_unlock_dec(t) \/ read_unlock_return(t)
        \/ write_unlock_state_lock(t) \/ write_unlock_dec(t)
        \/ write_unlock_check(t) \/ write_unlock_return(t)
        \/ panic_unwind(t)
        \/ WaitSpinStep(t)
        \/ NotifyOneNoWaiterStep(t) \/ NotifyAllStep(t) \/ Resume(t)

SpecRwLockMisuse == InitMutex /\ [][NextRwLockMisuse]_vars

\* Scenario: T1 holds M and waits on C; T2 locks M, notifies C, unlocks M.
\* The initial state is the one T1's uncontended lock() leaves.
Waiter == 1
Notifier == 2

WaitNotifyScripts ==
    [t \in AllTasks |-> IF t = Waiter THEN <<"wait", "unlock">>
                        ELSE IF t = Notifier THEN <<"lock", "notify_one", "unlock">>
                        ELSE <<>>]

InitWaitNotify ==
    /\ pc = [t \in AllTasks |-> IF t \in {Waiter, Notifier} THEN "user" ELSE "off"]
    /\ ret = [t \in AllTasks |-> <<>>]
    /\ script = WaitNotifyScripts
    /\ cvar = [t \in AllTasks |-> "cv"]
    /\ task = [t \in AllTasks |-> NoTask]
    /\ rv = [t \in AllTasks |-> FALSE]
    /\ blocked = [t \in AllTasks |-> FALSE]
    /\ oncpu = [t \in AllTasks |-> TRUE]
    /\ preempt = [t \in AllTasks |-> FALSE]
    /\ m_spin = NoTask
    /\ is_locked = TRUE
    /\ queue = <<>>
    /\ cv_spin = [c \in Condvars |-> NoTask]
    /\ cv_queue = [c \in Condvars |-> <<>>]
    /\ atomic_unlock_and_block = [c \in Condvars |-> NoTask]
    /\ rw_spin = NoTask
    /\ rw_state = Unlocked
    /\ owner = {Waiter}
    /\ rholders = {}
    /\ wholders = {}
    /\ owed = {}
    /\ late = {}

\* The statements the scenario can reach (no try_lock, no notify_all).
WaitNotifyStep(t) ==
    \/ ScriptLock(t) \/ ScriptUnlock(t) \/ ScriptWait(t) \/ ScriptNotifyOne(t)
    \/ LockStep(t) \/ UnlockStep(t)
    \/ NotifyOneStep(t) \/ WaitStep(t) \/ Resume(t)

NextWaitNotify == \E t \in {Waiter, Notifier} : WaitNotifyStep(t)

\* Fair scheduling: a task that can take a step eventually takes one.
SpecWaitNotify ==
    /\ InitWaitNotify
    /\ [][NextWaitNotify]_vars
    /\ \A t \in {Waiter, Notifier} : WF_vars(WaitNotifyStep(t))

\* The same scenario with preemption enabled.
NextWaitNotifyPreempt ==
    \E t \in {Waiter, Notifier} : WaitNotifyStep(t) \/ Preempt(t)

SpecWaitNotifyPreempt ==
    /\ InitWaitNotify
    /\ [][NextWaitNotifyPreempt]_vars
    /\ \A t \in {Waiter, Notifier} : WF_vars(WaitNotifyStep(t))

\* Scenario: three tasks read and unlock, a fourth writes.
ScenarioReaders == {1, 2, 3}
ScenarioWriter == 4

ReadersWriterScripts ==
    [t \in AllTasks |-> IF t \in ScenarioReaders THEN <<"read", "read_unlock">>
                        ELSE IF t = ScenarioWriter THEN <<"write", "write_unlock">>
                        ELSE <<>>]

InitReadersWriter ==
    InitWith(ScenarioReaders \cup {ScenarioWriter}, "user", ReadersWriterScripts)

ReadersWriterStep(t) ==
    \/ ScriptRead(t) \/ ScriptReadUnlock(t)
    \/ ScriptWrite(t) \/ ScriptWriteUnlock(t)
    \/ read_state_lock(t) \/ read_try(t) \/ read_return(t)
    \/ write_state_lock(t) \/ write_try(t) \/ write_return(t)
    \/ read_unlock_state_lock(t) \/ read_unlock_dec(t) \/ read_unlock_return(t)
    \/ write_unlock_state_lock(t) \/ write_unlock_dec(t)
    \/ write_unlock_check(t) \/ write_unlock_return(t)
    \/ WaitSpinStep(t) \/ NotifyOneNoWaiterStep(t) \/ NotifyAllStep(t) \/ Resume(t)

NextReadersWriter ==
    \E t \in ScenarioReaders \cup {ScenarioWriter} : ReadersWriterStep(t)

SpecReadersWriter ==
    /\ InitReadersWriter
    /\ [][NextReadersWriter]_vars
    /\ \A t \in ScenarioReaders \cup {ScenarioWriter} : WF_vars(ReadersWriterStep(t))

\* Scenario with both kinds of wait: T1 locks M, waits on C and unlocks; T2
\* locks M, notifies C and unlocks; T3 writes the RwLock and T4 reads it, each
\* parking in wait_spin when the other got there first.
RwWriter == 3
RwReader == 4

WaitBothScripts ==
    [t \in AllTasks |-> CASE t = Waiter -> <<"lock", "wait", "unlock">>
                          [] t = Notifier -> <<"lock", "notify_one", "unlock">>
                          [] t = RwWriter -> <<"write", "write_unlock">>
                          [] OTHER -> <<"read", "read_unlock">>]

InitWaitBoth ==
    InitWith({Waiter, Notifier, RwWriter, RwReader}, "user", WaitBothScripts)

NextWaitBoth ==
    \/ \E t \in {Waiter, Notifier} : WaitNotifyStep(t)
    \/ \E t \in {RwWriter, RwReader} : ReadersWriterStep(t)

SpecWaitBoth == InitWaitBoth /\ [][NextWaitBoth]_vars


\* Every operation together, by role: T1 and T2 use the Mutex and the
\* Condvar "cv" (T1 waits and tries, T2 notifies), T3 writes and T4 reads
\* the RwLock, each in any order it likes.
InitAllOps == InitWith({Waiter, Notifier, RwWriter, RwReader}, "idle", NoScripts)

NextAllOps ==
    \/ \E t \in {Waiter, Notifier} :
          \/ MutexStep(t) \/ NotifyStep(t) \/ WaitStep(t) \/ Resume(t)
          \/ UserLock(t) \/ UserUnlock(t) \/ UserAfterNotify(t)
    \/ UserTryLock(Waiter) \/ UserAfterTryLock(Waiter) \/ UserWait(Waiter)
    \/ UserNotifyOne(Notifier) \/ UserNotifyAll(Notifier)
    \/ \E t \in {RwWriter, RwReader} :
          \/ RwLockStep(t) \/ WaitSpinStep(t)
          \/ NotifyOneNoWaiterStep(t) \/ NotifyAllStep(t) \/ Resume(t)
    \/ UserWrite(RwWriter) \/ UserWriteUnlock(RwWriter)
    \/ UserTryWrite(RwWriter) \/ UserAfterTryWrite(RwWriter)
    \/ UserRead(RwReader) \/ UserReadUnlock(RwReader)
    \/ UserTryRead(RwReader) \/ UserAfterTryRead(RwReader)

SpecAllOps == InitAllOps /\ [][NextAllOps]_vars

\* The same on a host whose scheduler may report no current task.
NextNoTask ==
    \/ NextAllOps
    \/ \E t \in {Waiter, Notifier} :
          lock_no_task(t) \/ wait_no_task(t) \/ no_task_unwind(t)
    \/ \E t \in {RwWriter, RwReader} :
          wait_spin_no_task(t) \/ no_task_unwind(t)

SpecNoTask == InitAllOps /\ [][NextNoTask]_vars

----------------------------------------------------------------------------
\* Properties.

\* A task dequeued by unlock() that has not yet returned from lock().
PendingHandOff(t) ==
    /\ pc[t] \in {"lock_drop_guard", "lock_yield", "lock_resumed"}
    /\ ~InSeq(t, queue)

\* C1: Mutex mutual exclusion: at most one task at a time is between a
\* successful lock()/try_lock() return and its matching unlock() call.
C1_MutualExclusion == Cardinality(owner) <= 1

\* C1 witness: one task holds the Mutex while another is queued in lock() and
\* a third has just been refused by try_lock().
C1_Witness ==
    /\ Cardinality(owner) = 1
    /\ queue # <<>>
    /\ \E t \in Tasks : pc[t] = "try_lock_drop_guard" /\ ~rv[t]

\* The statements of wait() after `queue.push(current_task)`, up to and
\* including being parked in yield_now.
WaitAfterPush == {"wait_drop_queue", "wait_guard_lock", "wait_unlock",
                  "wait_block", "wait_drop_guard", "wait_yield", "wait_relock"}

\* The statements of wait() after the push and before `current_task.block()`
\* has been executed.
WaitPushToBlock == {"wait_drop_queue", "wait_guard_lock", "wait_unlock", "wait_block"}

\* notify_one has removed t from the queue and is about to unblock it.
BeingWoken(t) == \E u \in Tasks : pc[u] = "notify_one_unblock" /\ task[u] = t

\* C2: no lost wakeup when waiter and notifier hold the Mutex: a waiter that
\* has pushed itself and is no longer in the queue has been made runnable (or
\* is blocked and the notify that removed it is about to unblock it); it is
\* never blocked with nobody left to wake it.
C2_NoLostWakeup ==
    \A t \in Tasks :
        (Inside(t, WaitAfterPush) /\ ~InSeq(t, cv_queue["cv"]))
            => IF BeingWoken(t) THEN blocked[t] ELSE ~blocked[t]

\* C2 witness: a waiter parked in yield_now has been removed from the queue
\* by a notify and is runnable again.
C2_Witness ==
    \E t \in Tasks : /\ pc[t] = "wait_relock" /\ ~oncpu[t]
                     /\ ~InSeq(t, cv_queue["cv"]) /\ ~blocked[t]

\* C3: RwLock safety: while a task holds write access no other task holds
\* read or write access.
C3_RwLockSafety ==
    \A w \in wholders : \A u \in Tasks \ {w} : u \notin rholders \cup wholders

\* C3 witness: a task holds write access while another is parked in read()
\* and a third has just been refused by try_write().
C3_Witness ==
    /\ wholders # {}
    /\ \E t \in Tasks : ParkedAsReader(t) /\ blocked[t]
    /\ \E t \in Tasks : pc[t] = "try_write_return" /\ ~rv[t]

\* C4: Mutex FIFO: the queue only grows at its tail and shrinks at its head,
\* the task unlock() removes is the oldest waiter, and a step that wakes a
\* task wakes exactly the one unlock() removed.
C4_FifoHandOff ==
    [][ /\ queue' # queue =>
             \/ \E t \in Tasks : queue' = Append(queue, t)
             \/ /\ queue # <<>>
                /\ queue' = Tail(queue)
                /\ \E u \in Tasks : pc[u] = "unlock_test" /\ task'[u] = Head(queue)
        /\ \A t \in Tasks : (blocked[t] /\ ~blocked'[t]) =>
             /\ \E u \in Tasks : pc[u] = "unlock_unblock" /\ task[u] = t
             /\ \A x \in Tasks \ {t} : blocked'[x] = blocked[x]
      ]_vars

\* C4 witness: with two tasks queued, unlock() has removed the first and the
\* second is still waiting.
C4_Witness ==
    \E u, a, b \in Tasks : /\ pc[u] = "unlock_unblock" /\ task[u] = a
                           /\ queue = <<b>> /\ a # b /\ blocked[a] /\ blocked[b]

\* C5: RwLock writer preference: when the state leaves Unlocked while a
\* writer that was parked when it became Unlocked is still waiting, the task
\* acquiring is not a reader that was parked behind that writer.
C5_WriterPreference ==
    [][ (rw_state.k = "Unlocked" /\ rw_state'.k # "Unlocked" /\ owed # {})
            => rw_spin \notin late ]_vars

\* C6: last-reader hand-off: once the three readers have unlocked and the
\* state is Unlocked, the writer is not left parked and blocked in write().
C6_LastReaderWakesWriter ==
    ((\A r \in ScenarioReaders : Finished(r)) /\ rw_state = Unlocked)
        => ~(blocked[ScenarioWriter] /\ ParkedAsWriter(ScenarioWriter)
             /\ pc[ScenarioWriter] = "wait_spin_relock")

C8_HandOffKeepsLocked ==
    \A t \in Tasks : (PendingHandOff(t) \/ t \in owner) => is_locked

\* C8 witness: a waiter has been handed the lock and has not resumed yet,
\* and a third task's try_lock() has just returned false.
C8_Witness ==
    \E t, u \in Tasks : /\ PendingHandOff(t) /\ pc[t] = "lock_resumed" /\ ~oncpu[t]
                        /\ u # t /\ pc[u] = "try_lock_drop_guard" /\ ~rv[u]

\* C9: wait is atomic with respect to notify whether or not the notifier
\* holds the Mutex: a waiter between its push and its block() is still in
\* the queue.
C9_WaitAtomicWithNotify ==
    \A t \in Tasks : Inside(t, WaitPushToBlock) => InSeq(t, cv_queue["cv"])

\* The task holding the spinlock that task t is trying to acquire (NoTask
\* when t is not acquiring one or the spinlock is free).
SpinningOn(t) ==
    CASE pc[t] \in {"lock_spin", "unlock_spin", "try_lock_spin"} -> m_spin
      [] pc[t] \in {"notify_one_queue_lock", "notify_all_queue_lock",
                    "wait_queue_lock", "wait_spin_queue_lock"} -> cv_spin[cvar[t]]
      [] pc[t] \in {"notify_one_guard_lock", "notify_all_guard_lock",
                    "wait_guard_lock", "wait_spin_guard_lock"} ->
             atomic_unlock_and_block[cvar[t]]
      [] pc[t] \in {"read_state_lock", "try_read_state_lock", "write_state_lock",
                    "try_write_state_lock", "read_unlock_state_lock",
                    "write_unlock_state_lock", "wait_spin_relock"} -> rw_spin
      [] OTHER -> NoTask

\* C10: no unbounded spinning under preemption: no task spins on a spinlock
\* whose holder is blocked and off its core (and so cannot release it before
\* somebody unblocks it).
C10_NoSpinOnParkedHolder ==
    \A t \in AllTasks :
        (oncpu[t] /\ SpinningOn(t) # NoTask)
            => ~(blocked[SpinningOn(t)] /\ ~oncpu[SpinningOn(t)])

\* The statements of wait() after `mutex.unlock()` has returned and before
\* `mutex.lock()` is called.
WaitReleased == {"wait_block", "wait_drop_guard", "wait_yield", "wait_relock"}

\* The statements of wait_spin() after `drop(guard)` and before `mutex.lock()`
\* has returned.
WaitSpinReleased == {"wait_spin_block", "wait_spin_drop_guard",
                     "wait_spin_yield", "wait_spin_relock"}

\* T1's wait() has returned and T1 has not made its next call yet.
WaiterReturnedFromWait == pc[Waiter] = "user" /\ script[Waiter] = <<"unlock">>

\* C11: wait releases on park and reacquires before return: from the return
\* of its unlock() until its lock(), a waiter does not hold M (and does hold
\* M when it drops it); when wait has returned the caller is the one holder
\* of M.  Likewise wait_spin holds the passed spinlock until `drop(guard)`,
\* does not hold it while parked, and the loop of read()/write() it returns
\* to runs holding the spinlock again.
C11_WaitReleasesAndReacquires ==
    /\ \A t \in {Waiter, Notifier} :
          /\ pc[t] = "wait_unlock" => (t \in owner /\ is_locked)
          /\ pc[t] \in WaitReleased => t \notin owner
    /\ WaiterReturnedFromWait => (is_locked /\ owner = {Waiter})
    /\ \A t \in {RwWriter, RwReader} :
          /\ pc[t] = "wait_spin_drop_mutex" => rw_spin = t
          /\ pc[t] \in WaitSpinReleased => rw_spin # t
          /\ pc[t] \in {"read_try", "write_try"} => rw_spin = t

\* C11 witness: T1 has parked in wait, been woken and returned holding M
\* after T2 held M in between, while T4 is parked in wait_spin and T3 holds
\* the spinlock of the RwLock state.
C11_Witness ==
    /\ WaiterReturnedFromWait /\ owner = {Waiter}
    /\ script[Notifier] = <<>>
    /\ pc[RwReader] = "wait_spin_relock" /\ ~oncpu[RwReader]
    /\ rw_spin = RwWriter

\* C12 (as stated): a task that has called wait and is present in the queue
\* of the Condvar does not hold M, is not queued to acquire M and has not
\* started to reacquire it.
C12_QueuedWaiterHoldsNothing ==
    \A t \in Tasks :
        InSeq(t, cv_queue["cv"]) =>
            /\ t \notin owner
            /\ ~InSeq(t, queue)
            /\ Inside(t, WaitAfterPush)

\* C12 (amended): a task present in the queue of the Condvar is queued in
\* no lock() and has not called the lock() that reacquires M; once the
\* unlock() inside wait has returned it does not hold M; and once it has
\* executed block() it stays blocked, so it cannot get to that lock() before
\* a notify has removed it from the queue and unblocked it.
C12_ParkedWaiterHoldsNothing ==
    \A t \in Tasks :
        InSeq(t, cv_queue["cv"]) =>
            /\ Inside(t, WaitAfterPush)
            /\ ~InSeq(t, queue)
            /\ (pc[t] \in WaitReleased => t \notin owner)
            /\ (pc[t] \in {"wait_drop_guard", "wait_yield", "wait_relock"} => blocked[t])
            /\ (pc[t] = "wait_relock" => ~oncpu[t])

\* C12 witness: a waiter is parked in wait and still in the queue of the
\* Condvar while another task holds M and a third is queued in lock().
C12_Witness ==
    \E t, u, v \in Tasks :
        /\ InSeq(t, cv_queue["cv"]) /\ pc[t] = "wait_relock" /\ ~oncpu[t]
        /\ owner = {u} /\ u # t
        /\ InSeq(v, queue) /\ v # t

\* C13: notify_one on a non-empty queue removes the oldest waiter, unblocks
\* that task and no other, leaves the rest of the queue in order and returns
\* true; on an empty queue it returns false, unblocks nobody and leaves the
\* queue as it was.  Between taking and dropping the queue lock nobody else
\* changes the queue, and the result is returned as it was computed.
C13_NotifyOneWakesOldest ==
    [][ \A u \in Tasks :
          /\ (pc[u] = "notify_one_test" /\ pc'[u] # pc[u]) =>
                /\ blocked' = blocked
                /\ IF cv_queue["cv"] # <<>>
                      THEN /\ task'[u] = Head(cv_queue["cv"])
                           /\ cv_queue'["cv"] = Tail(cv_queue["cv"])
                           /\ pc'[u] = "notify_one_unblock"
                      ELSE /\ cv_queue' = cv_queue
                           /\ rv'[u] = FALSE
                           /\ pc'[u] = "notify_one_drop_guard"
          /\ (pc[u] = "notify_one_unblock" /\ pc'[u] # pc[u]) =>
                /\ ~blocked'[task[u]]
                /\ \A x \in Tasks \ {task[u]} : blocked'[x] = blocked[x]
                /\ cv_queue' = cv_queue
                /\ rv'[u] = TRUE
                /\ pc'[u] = "notify_one_drop_guard"
          /\ (pc[u] \in {"notify_one_guard_lock", "notify_one_drop_guard",
                         "notify_one_drop_queue"}) =>
                (cv_queue' = cv_queue /\ rv'[u] = rv[u])
      ]_vars

\* C13 witness: with two waiters parked, notify_one has removed and unblocked
\* the older one and is about to return true; the younger one is still
\* queued and blocked.
C13_Witness ==
    \E u, a, b \in Tasks :
        /\ pc[u] = "notify_one_drop_guard" /\ rv[u]
        /\ cv_queue["cv"] = <<b>> /\ blocked[b]
        /\ a # b /\ a # u /\ pc[a] = "wait_relock" /\ ~blocked[a]

\* C14: notify_all wakes every task that is in the queue when it takes the
\* queue lock, once each and oldest first, and returns with the queue empty:
\* while a notify_all holds the queue lock the queue changes only by that
\* call removing its head, the task removed is unblocked in the same step and
\* nobody else is, nothing is enqueued, and the call leaves its loop only
\* when the queue is empty.  Later arrivals find the lock free again and are
\* not touched by the call.
C14_NotifyAllDrainsFifo ==
    [][ \A u \in Tasks :
          (pc[u] \in {"notify_all_guard_lock", "notify_all_drain",
                      "notify_all_drop_guard", "notify_all_drop_queue"}) =>
             /\ cv_queue'["cv"] # cv_queue["cv"] =>
                   /\ pc[u] = "notify_all_drain" /\ pc'[u] = "notify_all_drain"
                   /\ cv_queue["cv"] # <<>>
                   /\ cv_queue'["cv"] = Tail(cv_queue["cv"])
                   /\ ~blocked'[Head(cv_queue["cv"])]
                   /\ \A x \in Tasks \ {Head(cv_queue["cv"])} : blocked'[x] = blocked[x]
             /\ (pc[u] = "notify_all_drain" /\ pc'[u] # pc[u]) =>
                   (cv_queue["cv"] = <<>> /\ blocked' = blocked)
             /\ pc[u] \in {"notify_all_drop_guard", "notify_all_drop_queue"} =>
                   (cv_queue["cv"] = <<>> /\ cv_queue'["cv"] = <<>>)
      ]_vars

\* C14 witness: with two waiters parked, notify_all has removed and unblocked
\* the older one and the younger one is next.
C14_Witness ==
    \E u, a, b \in Tasks :
        /\ pc[u] = "notify_all_drain"
        /\ cv_queue["cv"] = <<b>> /\ blocked[b]
        /\ a # b /\ a # u /\ pc[a] = "wait_relock" /\ ~blocked[a]

\* C15: try_lock never blocks, yields or enqueues the caller; it returns true
\* exactly when is_locked was false, and then is_locked is true and the
\* caller is the holder; when it returns false, is_locked and the queue are
\* as they were.
C15_TryLockSingleShot ==
    [][ \A t \in Tasks :
          /\ (pc[t] \in {"try_lock_hold", "try_lock_spin", "try_lock_test",
                         "try_lock_drop_state", "try_lock_drop_guard"}) =>
                /\ ~blocked[t] /\ ~blocked'[t]
                /\ oncpu[t] /\ oncpu'[t]
                /\ ~InSeq(t, queue) /\ ~InSeq(t, queue')
          /\ (pc[t] = "try_lock_test" /\ pc'[t] # pc[t]) =>
                /\ rv'[t] = ~is_locked
                /\ queue' = queue
                /\ IF is_locked THEN is_locked' = is_locked ELSE is_locked'
          /\ (pc[t] \in {"try_lock_drop_state", "try_lock_drop_guard"}) =>
                /\ rv'[t] = rv[t]
                /\ rv[t] => (is_locked /\ is_locked' /\ owner = {})
          /\ (pc[t] = "try_lock_drop_guard" /\ pc'[t] # pc[t]) =>
                /\ pc'[t] = "after_try_lock"
                /\ owner' = IF rv[t] THEN {t} ELSE owner
      ]_vars

\* C15 witness: one try_lock has returned true and its caller holds the
\* Mutex; another, made meanwhile, is about to return false.
C15_Witness ==
    \E t, u \in Tasks :
        /\ pc[t] = "after_try_lock" /\ rv[t] /\ owner = {t} /\ is_locked
        /\ pc[u] = "try_lock_drop_guard" /\ ~rv[u] /\ queue = <<>>

\* The tasks counted in Reading(n): those whose inc_readers has succeeded and
\* whose dec_readers has not run yet.
CountedReaders ==
    {t \in Tasks : \/ t \in rholders
                   \/ pc[t] = "read_return"
                   \/ pc[t] = "try_read_return" /\ rv[t]
                   \/ pc[t] \in {"read_unlock_state_lock", "read_unlock_dec"}}

\* C16: reader count invariant: Reading(n) is only ever observed with n >= 1
\* (n is the number of tasks with read access), and when no task has read
\* access the state is not Reading.
C16_ReaderCount ==
    IF rw_state.k = "Reading"
       THEN rw_state.n >= 1 /\ rw_state.n = Cardinality(CountedReaders)
       ELSE rw_state.n = 0 /\ CountedReaders = {}

\* C16 witness: of two readers one has just decremented the count, leaving
\* Reading(1) for the other, which still has read access.
C16_Witness ==
    /\ rw_state = Reading(1)
    /\ \E t, u \in Tasks : /\ pc[t] = "read_unlock_return" /\ rw_spin = t
                           /\ u # t /\ rholders = {u}

\* C17: invalid unlocks fail fast: the dec_readers of read_unlock in state
\* Unlocked or Writing, and the dec_writers of write_unlock in state Unlocked
\* or Reading(n), panic; the state is left as it was, and the panicking call
\* neither changes a wait queue nor unblocks anybody, then or while it
\* unwinds.
C17_InvalidUnlockPanics ==
    [][ \A t \in Tasks :
          /\ (pc[t] = "read_unlock_dec" /\ pc'[t] # pc[t]
                /\ rw_state.k \in {"Unlocked", "Writing"}) =>
                (pc'[t] = "panicked" /\ rw_state' = rw_state
                   /\ cv_queue' = cv_queue /\ blocked' = blocked)
          /\ (pc[t] = "write_unlock_dec" /\ pc'[t] # pc[t]
                /\ rw_state.k \in {"Unlocked", "Reading"}) =>
                (pc'[t] = "panicked" /\ rw_state' = rw_state
                   /\ cv_queue' = cv_queue /\ blocked' = blocked)
          /\ (pc[t] = "panicked" /\ pc'[t] # pc[t]) =>
                (pc'[t] = "dead" /\ rw_state' = rw_state
                   /\ cv_queue' = cv_queue /\ blocked' = blocked)
          /\ (pc[t] = "dead") => pc'[t] = "dead"
      ]_vars

\* C17 witness: while one task holds write access and another is parked in
\* read(), a third has called read_unlock and panicked; the state is still
\* Writing and the parked reader is still queued and blocked.
C17_Witness ==
    \E t, u, w \in Tasks :
        /\ pc[t] = "panicked" /\ rw_state = Writing /\ wholders = {w}
        /\ InSeq(u, cv_queue["readers"]) /\ blocked[u] /\ pc[u] = "wait_spin_relock"

\* C18: the acquire transitions follow the table in every state: inc_readers
\* (read, try_read) takes Unlocked to Reading(1) and Reading(n) to
\* Reading(n+1) and succeeds, and fails in Writing; inc_writers (write,
\* try_write) takes Unlocked to Writing and succeeds, and fails in Reading(n)
\* and in Writing; a failing transition leaves the state as it was.
C18_AcquireTransitions ==
    [][ \A t \in Tasks :
          /\ (pc[t] \in {"read_try", "try_read_try"} /\ pc'[t] # pc[t]) =>
                LET success == \/ pc'[t] = "read_return"
                               \/ pc'[t] = "try_read_return" /\ rv'[t]
                IN  CASE rw_state.k = "Unlocked" -> rw_state' = Reading(1) /\ success
                      [] rw_state.k = "Reading" ->
                            rw_state' = Reading(rw_state.n + 1) /\ success
                      [] rw_state.k = "Writing" -> rw_state' = rw_state /\ ~success
          /\ (pc[t] \in {"write_try", "try_write_try"} /\ pc'[t] # pc[t]) =>
                LET success == \/ pc'[t] = "write_return"
                               \/ pc'[t] = "try_write_return" /\ rv'[t]
                IN  CASE rw_state.k = "Unlocked" -> rw_state' = Writing /\ success
                      [] rw_state.k = "Reading" -> rw_state' = rw_state /\ ~success
                      [] rw_state.k = "Writing" -> rw_state' = rw_state /\ ~success
      ]_vars

\* C18 witness: a second reader has just taken Reading(1) to Reading(2)
\* while a writer that failed in Reading is parked.
C18_Witness ==
    \E t, u, v \in Tasks :
        /\ pc[t] = "read_return" /\ rw_state = Reading(2) /\ rholders = {v}
        /\ ParkedAsWriter(u) /\ blocked[u] /\ pc[u] = "wait_spin_relock"

\* C19: try_read and try_write are single-shot: a task inside one of them is
\* never blocked, never off its core and never in a wait queue of the
\* RwLock; it goes through one transition attempt and then returns, and it
\* changes the state in no other step; a failed attempt leaves the state,
\* both wait queues and every runstate as they were.
C19_TrySingleShot ==
    [][ \A t \in Tasks :
          /\ (pc[t] \in {"try_read_state_lock", "try_read_try", "try_read_return",
                         "try_write_state_lock", "try_write_try", "try_write_return"}) =>
                /\ ~blocked[t] /\ ~blocked'[t]
                /\ oncpu[t] /\ oncpu'[t]
                /\ \A c \in {"readers", "writers"} :
                      ~InSeq(t, cv_queue[c]) /\ ~InSeq(t, cv_queue'[c])
          /\ (pc[t] = "try_read_state_lock" /\ pc'[t] # pc[t]) =>
                (pc'[t] = "try_read_try" /\ rw_state' = rw_state)
          /\ (pc[t] = "try_write_state_lock" /\ pc'[t] # pc[t]) =>
                (pc'[t] = "try_write_try" /\ rw_state' = rw_state)
          /\ (pc[t] = "try_read_try" /\ pc'[t] # pc[t]) =>
                /\ pc'[t] = "try_read_return"
                /\ ~rv'[t] => (rw_state' = rw_state /\ cv_queue' = cv_queue
                                 /\ blocked' = blocked)
          /\ (pc[t] = "try_write_try" /\ pc'[t] # pc[t]) =>
                /\ pc'[t] = "try_write_return"
                /\ ~rv'[t] => (rw_state' = rw_state /\ cv_queue' = cv_queue
                                 /\ blocked' = blocked)
          /\ (pc[t] = "try_read_return" /\ pc'[t] # pc[t]) =>
                (pc'[t] = "after_try_read" /\ rv'[t] = rv[t] /\ rw_state' = rw_state)
          /\ (pc[t] = "try_write_return" /\ pc'[t] # pc[t]) =>
                (pc'[t] = "after_try_write" /\ rv'[t] = rv[t] /\ rw_state' = rw_state)
      ]_vars

\* C19 witness: while a task holds write access, the try_read of another has
\* failed and is about to return false, and the try_write of a third is
\* spinning for the state spinlock.
C19_Witness ==
    \E t, u, w \in Tasks :
        /\ wholders = {w} /\ rw_state = Writing
        /\ pc[t] = "try_read_return" /\ ~rv[t]
        /\ pc[u] = "try_write_state_lock"

\* C20: write_unlock wake policy: when tasks were parked in write() at the
\* write_unlock, a step that wakes a task wakes one of those writers, the
\* other parked writers stay parked, and no parked reader is woken.
C20_WriteUnlockWakesOneWriter ==
    [][ \A x \in Tasks :
          (blocked[x] /\ ~blocked'[x] /\ owed # {}) =>
             /\ x \in owed
             /\ ParkedAsWriter(x)
             /\ \A w \in owed \ {x} : blocked[w] /\ InSeq(w, cv_queue["readers"])
      ]_vars

\* C21: bounded writer latency: under fair scheduling, with every task that
\* acquires the RwLock releasing it again, a task parked in write()
\* eventually holds write access, whatever read() calls keep arriving.
C21_ParkedWriterAcquires ==
    \A t \in Tasks : (ParkedAsWriter(t) /\ blocked[t]) ~> (t \in wholders)

C23_NoTaskFailsBeforeChange ==
    [][ \A t \in AllTasks :
          /\ (pc[t] # "panicked" /\ pc'[t] = "panicked") =>
                /\ pc[t] \in {"lock_push", "wait_queue_lock", "wait_spin_queue_lock"}
                /\ UNCHANGED <<sched, mutexv, condv, rwv, owner>>
                /\ pc[t] = "lock_push" => (is_locked /\ m_spin = t /\ preempt[t])
                /\ pc[t] = "wait_queue_lock" => (is_locked /\ t \in owner)
                /\ pc[t] = "wait_spin_queue_lock" => rw_spin = t
          /\ (pc[t] = "panicked" /\ pc'[t] # "panicked") =>
                /\ pc'[t] = "dead"
                /\ UNCHANGED <<is_locked, queue, cv_queue, blocked, rw_state, owner>>
          /\ (pc[t] \in {"lock_fast_drop_state", "lock_fast_drop_guard",
                         "try_lock_hold", "try_lock_spin", "try_lock_test",
                         "try_lock_drop_state", "try_lock_drop_guard"}) =>
                pc'[t] \notin {"panicked", "lock_push"}
      ]_vars

\* C23 witness: all three failures have happened: T2 failed in the slow path
\* of lock and has unwound, T1 has failed in wait still holding M, and T4 has
\* failed in wait_spin and unwound while T3 holds write access; no queue has
\* an entry and nobody is blocked.
C23_Witness ==
    /\ pc[Notifier] = "dead"
    /\ pc[Waiter] = "panicked" /\ owner = {Waiter} /\ is_locked
    /\ pc[RwReader] = "dead" /\ wholders = {RwWriter}
    /\ queue = <<>> /\ \A c \in Condvars : cv_queue[c] = <<>>
    /\ \A t \in AllTasks : ~blocked[t]
    /\ m_spin = NoTask /\ rw_spin = NoTask

\* C24: there is no cancellation path: a task leaves the Mutex queue only
\* in the remove(0) of unlock and a Condvar queue only in the remove(0) of
\* notify_one or the drain of notify_all; it is then the head of the queue,
\* and the remover unblocks that same task, in the same step (notify_all) or
\* as its next step (unlock, notify_one).  So no step of lock, try_lock,
\* wait, wait_spin, try_read or try_write removes a task from a queue.
C24_NoCancellation ==
    [][ /\ \A u \in AllTasks :
              /\ (InSeq(u, queue) /\ ~InSeq(u, queue')) =>
                    \E t \in AllTasks :
                        /\ pc[t] = "unlock_test" /\ pc'[t] = "unlock_unblock"
                        /\ u = Head(queue) /\ task'[t] = u
              /\ \A c \in Condvars :
                    (InSeq(u, cv_queue[c]) /\ ~InSeq(u, cv_queue'[c])) =>
                        \E t \in AllTasks :
                            /\ cvar[t] = c /\ u = Head(cv_queue[c])
                            /\ \/ /\ pc[t] = "notify_one_test"
                                  /\ pc'[t] = "notify_one_unblock"
                                  /\ task'[t] = u
                               \/ /\ pc[t] = "notify_all_drain"
                                  /\ ~blocked'[u]
        /\ \A t \in AllTasks :
              (pc[t] \in {"unlock_unblock", "notify_one_unblock"}) =>
                  /\ task[t] \in AllTasks
                  /\ task'[t] \in {task[t], NoTask}
                  /\ (pc'[t] # pc[t]) => (~blocked'[task[t]] /\ task'[t] = NoTask)
      ]_vars

\* C24 witness: notify_one has removed T1 from the queue of "cv" and is
\* about to unblock it, while T4 is parked in a queue of the RwLock.
C24_Witness ==
    /\ pc[Notifier] = "notify_one_unblock" /\ task[Notifier] = Waiter
    /\ blocked[Waiter] /\ cv_queue["cv"] = <<>>
    /\ \E c \in Condvars : cv_queue[c] = <<RwReader>> /\ blocked[RwReader]

\* C25: blocking acquirers park on `writers`: a task that waits inside
\* read() or write() after a failed transition is in the queue of the
\* `writers` condition variable and not in that of `readers`.
C25_AcquirersParkOnWriters ==
    \A t \in AllTasks :
        ((ParkedAsReader(t) \/ ParkedAsWriter(t)) /\ t \in RwParked) =>
            (InSeq(t, cv_queue["writers"]) /\ ~InSeq(t, cv_queue["readers"]))

\* C26: a task yields holding nothing: at each yield_now of Mutex::lock,
\* Condvar::wait and Condvar::wait_spin (so of the retry loops of read and
\* write) the caller runs on a core, has been marked blocked (it is blocked,
\* or it has already been taken from the queue it pushed itself on and
\* unblocked), and holds no spinlock of the Mutex, of a Condvar or of the
\* RwLock, no atomic_unlock_and_block guard and no preemption guard.
C26_YieldsHoldingNothing ==
    \A t \in AllTasks :
        (pc[t] \in {"lock_yield", "wait_yield", "wait_spin_yield"}) =>
            /\ oncpu[t]
            /\ \/ blocked[t]
               \/ IF pc[t] = "lock_yield" THEN ~InSeq(t, queue)
                                          ELSE ~InSeq(t, cv_queue[cvar[t]])
            /\ m_spin # t /\ rw_spin # t
            /\ \A c \in Condvars : cv_spin[c] # t /\ atomic_unlock_and_block[c] # t
            /\ ~preempt[t]

\* C26 witness: T4 is about to yield in wait_spin, blocked and queued, while
\* T1 is about to yield in lock after unlock has already unblocked it.
C26_Witness ==
    /\ pc[RwReader] = "wait_spin_yield" /\ blocked[RwReader]
    /\ InSeq(RwReader, cv_queue[cvar[RwReader]])
    /\ pc[Waiter] = "lock_yield" /\ ~blocked[Waiter] /\ ~InSeq(Waiter, queue)

\* C27: Mutex critical sections are preemption-free: in lock, unlock and
\* try_lock a task holds its preemption guard at every statement from the
\* acquisition of the state spinlock to the drop of the guard, on the early
\* returns too; so the state spinlock is only ever held with preemption
\* suppressed (acquired after, released before), and its holder is on a core.
C27_StateSpinlockNotPreempted ==
    \A t \in AllTasks :
        /\ (pc[t] \in {"lock_spin", "lock_test", "lock_fast_drop_state",
                       "lock_fast_drop_guard", "lock_push", "lock_block",
                       "lock_drop_state", "lock_drop_guard",
                       "unlock_spin", "unlock_test", "unlock_unblock",
                       "unlock_drop_state", "unlock_drop_guard",
                       "try_lock_spin", "try_lock_test",
                       "try_lock_drop_state", "try_lock_drop_guard"}) =>
              (preempt[t] /\ oncpu[t])
        /\ (m_spin = t) => (preempt[t] /\ oncpu[t])

\* C27 witness: t holds the state spinlock in unlock, about to unblock u,
\* which was preempted after it dropped its guard in lock and before its
\* yield_now; a third task was preempted on its way into try_lock.
C27_Witness ==
    \E t, u, v \in Tasks :
        /\ m_spin = t /\ pc[t] = "unlock_unblock" /\ task[t] = u
        /\ pc[u] = "lock_yield" /\ ~oncpu[u] /\ blocked[u]
        /\ pc[v] = "try_lock_hold" /\ ~oncpu[v]

\* C28: the uncontended round trip.  lock on an unlocked Mutex sets
\* is_locked, leaves the queue alone and takes the early return, on which
\* the caller is never queued, blocked or off its core; unlock with an empty
\* queue clears is_locked and leaves the queue empty.  So while every other
\* task is outside the Mutex, a task that returned from lock has is_locked
\* set and an empty queue, its unlock never hands the lock over, and after
\* it the Mutex is as Mutex::new made it: is_locked = false, empty queue.
C28_UncontendedRoundTrip ==
    [][ \A t \in Tasks :
          /\ (pc[t] = "lock_test" /\ ~is_locked /\ pc'[t] # pc[t]) =>
                /\ is_locked' /\ queue' = queue
                /\ pc'[t] = "lock_fast_drop_state"
          /\ (pc[t] \in {"lock_fast_drop_state", "lock_fast_drop_guard"}) =>
                /\ is_locked /\ ~InSeq(t, queue) /\ ~blocked[t] /\ oncpu[t]
                /\ pc'[t] \in {pc[t], "lock_fast_drop_guard", "cs"}
                /\ oncpu'[t] /\ ~blocked'[t] /\ ~InSeq(t, queue')
          /\ (pc[t] = "unlock_test" /\ queue = <<>> /\ pc'[t] # pc[t]) =>
                /\ ~is_locked' /\ queue' = <<>>
                /\ pc'[t] = "unlock_drop_state"
          /\ (\A u \in Tasks \ {t} : pc[u] = "idle") =>
                /\ (pc[t] = "cs") => (is_locked /\ queue = <<>>)
                /\ pc[t] # "unlock_unblock"
                /\ (pc[t] \in {"unlock_drop_state", "unlock_drop_guard", "idle"}) =>
                      (~is_locked /\ queue = <<>>)
      ]_vars

\* C28 witness: t is returning from unlock after a lock, no other task is
\* in a call, and the Mutex is unlocked with an empty queue.
C28_Witness ==
    \E t \in Tasks :
        /\ pc[t] = "unlock_drop_guard" /\ ret[t] = <<"idle">>
        /\ \A u \in Tasks \ {t} : pc[u] = "idle"
        /\ ~is_locked /\ queue = <<>> /\ owner = {} /\ m_spin = NoTask

\* C29: the state goes from Reading to Unlocked exactly when the last
\* reader departs: the only step from Reading to Unlocked is the decrement
\* of a read_unlock in Reading(1), which then calls notify_one once, on
\* `writers`; the decrement in Reading(n), n > 1, gives Reading(n - 1) and
\* goes straight to the return, and from there read_unlock changes no wait
\* queue and no runstate.
C29_LastReaderUnlocks ==
    [][ /\ (rw_state.k = "Reading" /\ rw_state' = Unlocked) =>
              \E t \in Tasks : pc[t] = "read_unlock_dec" /\ pc'[t] # pc[t]
                               /\ rw_state = Reading(1)
        /\ \A t \in Tasks :
              /\ (pc[t] = "read_unlock_dec" /\ pc'[t] # pc[t] /\ rw_state = Reading(1)) =>
                    /\ rw_state' = Unlocked
                    /\ pc'[t] = "notify_one_queue_lock" /\ cvar'[t] = "writers"
                    /\ Len(ret'[t]) = Len(ret[t]) + 1
                    /\ InSeq("read_unlock_return", ret'[t])
                    /\ ~InSeq("read_unlock_return", ret[t])
              /\ (pc[t] = "read_unlock_dec" /\ pc'[t] # pc[t]
                    /\ rw_state.k = "Reading" /\ rw_state.n > 1) =>
                    /\ rw_state' = Reading(rw_state.n - 1)
                    /\ pc'[t] = "read_unlock_return"
                    /\ UNCHANGED <<cv_queue, blocked>>
              /\ (InSeq("read_unlock_return", ret[t])) =>
                    /\ cvar[t] = "writers"
                    /\ pc[t] \in {"notify_one_queue_lock", "notify_one_guard_lock",
                                  "notify_one_test", "notify_one_unblock",
                                  "notify_one_drop_guard", "notify_one_drop_queue"}
                    /\ cv_queue'["readers"] = cv_queue["readers"]
              /\ (pc[t] = "read_unlock_return" /\ pc'[t] # pc[t]) =>
                    /\ UNCHANGED <<cv_queue, blocked, rw_state>>
                    /\ pc'[t] \notin {"notify_one_queue_lock", "notify_all_queue_lock"}
      ]_vars

\* C29 witness: the last reader t has made the state Unlocked and is inside
\* its notify_one on `writers`, while a writer that failed against t's read
\* access is parked and blocked.
C29_Witness ==
    \E t, u \in Tasks :
        /\ pc[t] = "notify_one_test" /\ cvar[t] = "writers"
        /\ InSeq("read_unlock_return", ret[t])
        /\ rw_state = Unlocked /\ rholders = {}
        /\ ParkedAsWriter(u) /\ blocked[u] /\ u \in RwParked

\* C30: early unlock is harmless.  When unlock has removed w from the queue
\* and unblocked it after w released the state spinlock in lock and before
\* w's yield_now (w is past drop(state), not yet off its core, and already
\* runnable), the Mutex has been handed to w: is_locked is set and no other
\* task holds or gets it; and w is not left blocked: it returns from lock,
\* as the only holder.
C30_EarlyUnlockHarmless ==
    /\ [](\A w \in Tasks :
            (pc[w] \in {"lock_drop_guard", "lock_yield"} /\ oncpu[w] /\ ~blocked[w]) =>
                (is_locked /\ owner = {} /\ ~InSeq(w, queue)))
    /\ \A w \in Tasks :
          (pc[w] \in {"lock_drop_guard", "lock_yield"} /\ oncpu[w] /\ ~blocked[w])
              ~> (pc[w] = "cs" /\ owner = {w} /\ ~blocked[w] /\ oncpu[w])

\* C30 witness: w is about to yield in lock and is already runnable, while
\* the unlocker u, on another core, has not yet left unlock.
C30_Witness ==
    \E w, u \in Tasks :
        /\ pc[w] = "lock_yield" /\ oncpu[w] /\ ~blocked[w] /\ ~InSeq(w, queue)
        /\ pc[u] = "unlock_drop_state" /\ m_spin = u /\ oncpu[u]
        /\ is_locked /\ owner = {}

\* C31: unblock never precedes block: the task that unlock, notify_one or
\* notify_all has removed (or is about to remove in its drain) and is about
\* to unblock has already marked itself blocked.
C31_UnblockAfterBlock ==
    \A u \in AllTasks :
        /\ (pc[u] \in {"unlock_unblock", "notify_one_unblock"}) => blocked[task[u]]
        /\ (pc[u] = "notify_all_drain" /\ cv_queue[cvar[u]] # <<>>) =>
              blocked[Head(cv_queue[cvar[u]])]

\* C32: no spurious resumption: a task past the yield_now of Mutex::lock,
\* Condvar::wait or Condvar::wait_spin that is still in the queue it pushed
\* itself on is blocked and off its core; it runs the code after yield_now
\* only once it has been removed from that queue and unblocked.  A step out
\* of wait_spin's re-lock (one retry of read / write) therefore follows one
\* removal and one unblock of the task.
C32_NoSpuriousResumption ==
    \A t \in AllTasks :
        /\ (pc[t] = "lock_resumed") =>
              /\ InSeq(t, queue) => (blocked[t] /\ ~oncpu[t])
              /\ oncpu[t] => (~blocked[t] /\ ~InSeq(t, queue))
        /\ (pc[t] \in {"wait_relock", "wait_spin_relock"}) =>
              /\ InSeq(t, cv_queue[cvar[t]]) => (blocked[t] /\ ~oncpu[t])
              /\ oncpu[t] => (~blocked[t] /\ ~InSeq(t, cv_queue[cvar[t]]))
        /\ (pc[t] \in {"lock_resumed", "wait_relock", "wait_spin_relock"}
              /\ ~oncpu[t] /\ ~blocked[t]) =>
              (~InSeq(t, queue) /\ \A c \in Condvars : ~InSeq(t, cv_queue[c]))

\* C32 witness: T1 has been notified and runs the code after the yield_now
\* of wait, T4 has been woken by a write_unlock and runs the code after the
\* yield_now of wait_spin, and T2, which notified T1, still holds the Mutex.
C32_Witness ==
    /\ pc[Waiter] = "wait_relock" /\ oncpu[Waiter] /\ ~blocked[Waiter]
    /\ pc[RwReader] = "wait_spin_relock" /\ oncpu[RwReader] /\ ~blocked[RwReader]
    /\ owner = {Notifier} /\ pc[Notifier] = "cs"
    /\ \A c \in Condvars : cv_queue[c] = <<>>

\* C33: the state always equals the set of holders (a task holds access from
\* its successful inc_readers / inc_writers to its dec_readers /
\* dec_writers): Reading(n) exactly when n tasks hold read access and none
\* holds write access, Writing exactly when one task holds write access and
\* none holds read access, Unlocked exactly when no task holds any access.
C33_StateEqualsHolders ==
    LET CountedWriters ==
            {t \in Tasks : \/ t \in wholders
                           \/ pc[t] = "write_return"
                           \/ pc[t] = "try_write_return" /\ rv[t]
                           \/ pc[t] \in {"write_unlock_state_lock", "write_unlock_dec"}}
    IN  /\ rw_state \in {Unlocked, Writing} \cup {Reading(n) : n \in 1 .. NTasks}
        /\ (rw_state.k = "Reading") <=>
              (CountedReaders # {} /\ CountedWriters = {})
        /\ (rw_state.k = "Reading") => rw_state.n = Cardinality(CountedReaders)
        /\ (rw_state = Writing) <=>
              (Cardinality(CountedWriters) = 1 /\ CountedReaders = {})
        /\ (rw_state = Unlocked) <=>
              (CountedReaders = {} /\ CountedWriters = {})
        /\ rholders \cap wholders = {}

\* C33 witness: two tasks hold read access in Reading(2) while a writer is
\* parked and blocked.
C33_Witness ==
    \E t, u, w \in Tasks :
        /\ t # u /\ rholders = {t, u} /\ wholders = {}
        /\ pc[t] = "reading" /\ pc[u] = "reading"
        /\ rw_state = Reading(2)
        /\ ParkedAsWriter(w) /\ blocked[w] /\ ~oncpu[w]

\* C34: a non-empty queue implies is_locked: the queue grows only in the
\* push of a lock that found is_locked true, and is_locked is cleared only
\* by the test of an unlock that finds the queue empty.
C34_QueueImpliesLocked ==
    [][ /\ (queue # <<>>) => is_locked
        /\ (queue' # <<>>) => is_locked'
        /\ (Len(queue') > Len(queue)) =>
              /\ is_locked /\ is_locked'
              /\ \E t \in Tasks : /\ pc[t] = "lock_push" /\ pc'[t] = "lock_block"
                                  /\ queue' = Append(queue, t)
        /\ (is_locked /\ ~is_locked') =>
              /\ queue = <<>> /\ queue' = <<>>
              /\ \E t \in Tasks : pc[t] = "unlock_test" /\ pc'[t] = "unlock_drop_state"
      ]_vars

\* C34 witness: two tasks are queued and blocked behind a holder that is in
\* its critical section.
C34_Witness ==
    \E t \in Tasks :
        /\ owner = {t} /\ pc[t] = "cs" /\ is_locked
        /\ Len(queue) = 2
        /\ \A i \in 1 .. 2 : blocked[queue[i]] /\ ~oncpu[queue[i]]

\* C35: wait-queue membership is unique: a task is at most once in any one
\* wait queue, in at most one of the queues of the Mutex and the Condvars at
\* a time, and a holder of the Mutex is not in the Mutex's queue.
C35_QueueMembershipUnique ==
    /\ \A i, j \in 1 .. Len(queue) : (queue[i] = queue[j]) => (i = j)
    /\ \A c \in Condvars : \A i, j \in 1 .. Len(cv_queue[c]) :
          (cv_queue[c][i] = cv_queue[c][j]) => (i = j)
    /\ \A t \in AllTasks :
          /\ InSeq(t, queue) => \A c \in Condvars : ~InSeq(t, cv_queue[c])
          /\ \A c, d \in Condvars :
                (InSeq(t, cv_queue[c]) /\ InSeq(t, cv_queue[d])) => (c = d)
    /\ \A t \in owner : ~InSeq(t, queue)

\* C35 witness: T1 is queued on the Mutex that T2 holds and in no Condvar
\* queue, and T4 is queued on `readers` behind the writer T3.
C35_Witness ==
    /\ queue = <<Waiter>> /\ blocked[Waiter] /\ owner = {Notifier}
    /\ cv_queue["cv"] = <<>>
    /\ cv_queue["readers"] = <<RwReader>> /\ blocked[RwReader]
    /\ wholders = {RwWriter}

C37_BlockedLockerAcquires ==
    /\ [](queue # <<>> => is_locked)
    /\ \A t \in Tasks :
          (InSeq(t, queue) /\ blocked[t]) ~> (pc[t] = "cs" /\ t \in owner)

\* C37 witness: two tasks have blocked in lock and are parked in the queue
\* while the holder is in the test of its unlock.
C37_Witness ==
    \E t, u, v \in Tasks :
        /\ pc[u] = "unlock_test" /\ m_spin = u /\ is_locked
        /\ queue = <<t, v>>
        /\ blocked[t] /\ ~oncpu[t] /\ pc[t] = "lock_resumed"
        /\ blocked[v] /\ ~oncpu[v] /\ pc[v] = "lock_resumed"

\* C38: spinlock acquisition is acyclic: a task that goes for a spinlock
\* holds only spinlocks that come earlier in the order RwLock state, Condvar
\* queue, atomic_unlock_and_block guard, Mutex state; and there is no set of
\* tasks each of which spins on a spinlock held by a task of the set.
C38_SpinlocksAcyclic ==
    LET Held(t) ==
            {r \in 1 .. 4 :
                \/ r = 1 /\ rw_spin = t
                \/ r = 2 /\ \E c \in Condvars : cv_spin[c] = t
                \/ r = 3 /\ \E c \in Condvars : atomic_unlock_and_block[c] = t
                \/ r = 4 /\ m_spin = t}
        Wanted(t) ==
            CASE pc[t] \in {"read_state_lock", "try_read_state_lock",
                            "write_state_lock", "try_write_state_lock",
                            "read_unlock_state_lock", "write_unlock_state_lock",
                            "wait_spin_relock"} -> 1
              [] pc[t] \in {"notify_one_queue_lock", "notify_all_queue_lock",
                            "wait_queue_lock", "wait_spin_queue_lock"} -> 2
              [] pc[t] \in {"notify_one_guard_lock", "notify_all_guard_lock",
                            "wait_guard_lock", "wait_spin_guard_lock"} -> 3
              [] pc[t] \in {"lock_spin", "unlock_spin", "try_lock_spin"} -> 4
              [] OTHER -> 5
    IN  /\ \A t \in AllTasks : \A r \in Held(t) : r < Wanted(t)
        /\ \A S \in SUBSET AllTasks :
              (S # {}) => \E t \in S : SpinningOn(t) \notin S

\* C38 witness: T2 holds the queue of "cv" and spins on the guard that T1
\* holds in wait, and T3 holds the RwLock state and the queue of `readers`
\* and spins on the guard that T4 holds in wait_spin.
C38_Witness ==
    /\ pc[Notifier] = "notify_one_guard_lock" /\ cv_spin["cv"] = Notifier
    /\ SpinningOn(Notifier) = Waiter
    /\ pc[RwWriter] = "notify_all_guard_lock" /\ rw_spin = RwWriter
    /\ cv_spin["readers"] = RwWriter /\ SpinningOn(RwWriter) = RwReader

====
